---- MODULE Spec2Model ----
(***************************************************************************)
(* tool-query: an RFC 9535 JSONPath engine.                                *)
(*                                                                         *)
(* The model follows the three surface operations of the library:          *)
(*   parseQuery    (src/src/parse.ts, lines 1-1537)                        *)
(*   formatQuery   (src/src/parse.ts, lines 1538-1975)                     *)
(*   evaluateQuery (src/unnamed/part_001)                                  *)
(*                                                                         *)
(* A query string is a sequence of lexemes (one TLA+ string per lexeme:    *)
(* a punctuation mark, an operator, an identifier, an integer or a quoted  *)
(* string).  The parser is the recursive descent of parse.ts over that     *)
(* sequence, with the same one-lexeme look-ahead, the same order of        *)
(* checks and the same error exits.  JSON values are tagged records.       *)
(***************************************************************************)
EXTENDS Integers, Sequences, FiniteSets, TLC

VARIABLES
    pc,        \* position of the caller's script
    input,     \* the query string handed to parseQuery (a lexeme sequence)
    root,      \* the JSON value handed to evaluateQuery
    query,     \* result of parseQuery(input)
    text,      \* formatQuery(query)
    query2,    \* result of parseQuery(text)
    text2,     \* formatQuery(query2)
    result,    \* result of evaluateQuery(query, root)
    subject,   \* the AST node (or argument list) a unit operation is applied to
    given,     \* the remaining inputs of that unit operation
    outcome    \* what the unit operation returned

vars == <<pc, input, root, query, text, query2, text2, result, subject, given, outcome>>

-----------------------------------------------------------------------------
(* JSON values (the Node type of tool-json)                                *)

JNull == [t |-> "null"]
JBool(b) == [t |-> "bool", b |-> b]
JNum(n) == [t |-> "num", n |-> n]
JStr(s) == [t |-> "str", s |-> s]
JArr(a) == [t |-> "arr", a |-> a]
\* an object is the sequence of its members in insertion order
JObj(o) == [t |-> "obj", o |-> o]
Member(k, v) == [k |-> k, v |-> v]

isArray(node) == node.t = "arr"
isObject(node) == node.t = "obj"
isString(node) == node.t = "str"

\* getChild(node, key): the member value of an object, undefined otherwise.
\* The result is a sequence of length 0 (undefined) or 1.
getChild(node, key) ==
    IF isObject(node)
    THEN LET hits == SelectSeq(node.o, LAMBDA m : m.k = key)
         IN IF hits = <<>> THEN <<>> ELSE <<hits[1].v>>
    ELSE <<>>

\* getChildren(node): array elements in index order, object members in
\* insertion order, nothing for a primitive.
getChildren(node) ==
    IF isArray(node) THEN node.a
    ELSE IF isObject(node) THEN [i \in 1..Len(node.o) |-> node.o[i].v]
    ELSE <<>>

\* getDescendants(node): the proper descendants in pre-order
RECURSIVE getDescendants(_)
RECURSIVE DescendantsFrom(_, _)
getDescendants(node) == DescendantsFrom(getChildren(node), 1)
DescendantsFrom(children, i) ==
    IF i > Len(children) THEN <<>>
    ELSE <<children[i]>> \o getDescendants(children[i]) \o DescendantsFrom(children, i + 1)

\* equal(a, b): JSON deep equality; the members of an object in any order
RECURSIVE equal(_, _)
equal(a, b) ==
    CASE a.t # b.t -> FALSE
      [] a.t = "null" -> TRUE
      [] a.t = "bool" -> a.b = b.b
      [] a.t = "num" -> a.n = b.n
      [] a.t = "str" -> a.s = b.s
      [] a.t = "arr" ->
            /\ Len(a.a) = Len(b.a)
            /\ \A i \in 1..Len(a.a) : equal(a.a[i], b.a[i])
      [] a.t = "obj" ->
            /\ Len(a.o) = Len(b.o)
            /\ \A i \in 1..Len(a.o) :
                  \E j \in 1..Len(b.o) : a.o[i].k = b.o[j].k /\ equal(a.o[i].v, b.o[j].v)

\* the strings of the model in ascending order of their Unicode scalar values
StringOrder == <<"a", "b", "j", "j j", "k", "x">>
StringRank(str) == CHOOSE i \in 1..Len(StringOrder) : StringOrder[i] = str

Sign(n) == IF n < 0 THEN -1 ELSE IF n > 0 THEN 1 ELSE 0

\* compare(a, b): <<-1>>, <<0>> or <<1>> for two numbers or two strings,
\* <<>> (undefined) for every other pair
compare(a, b) ==
    IF a.t = "num" /\ b.t = "num" THEN <<Sign(a.n - b.n)>>
    ELSE IF a.t = "str" /\ b.t = "str" THEN <<Sign(StringRank(a.s) - StringRank(b.s))>>
    ELSE <<>>

\* unicodeLength(str): the strings of the model are ASCII
unicodeLength(str) == Len(str)

-----------------------------------------------------------------------------
(* The AST: src/src/query.ts, segment.ts, selector.ts, expression.ts       *)

\* DeclaredType
Value == "Value"
Logical == "Logical"
Nodes == "Nodes"

\* QueryScope
ScopeNone == "undefined"
ScopeExpression == "Expression"
ScopeArgument == "Argument"

createQuery(segments) == [segments |-> segments]
createChildSegment(selectors) == [kind |-> "Child", selectors |-> selectors]
createDescendantSegment(selectors) == [kind |-> "Descendant", selectors |-> selectors]
createNameSelector(name) == [kind |-> "Name", name |-> name]
createWildcardSelector == [kind |-> "Wildcard"]
createIndexSelector(index) == [kind |-> "Index", index |-> index]
\* start, end and step are sequences of length 0 (undefined) or 1
createSliceSelector(start, end, step) ==
    [kind |-> "Slice", start |-> start, end |-> end, step |-> step]
createFilterSelector(expression) == [kind |-> "Filter", expression |-> expression]
createOrExpression(operands) == [kind |-> "Or", operands |-> operands]
createAndExpression(operands) == [kind |-> "And", operands |-> operands]
createComparisonExpression(lhs, operator, rhs) ==
    [kind |-> "Comparison", lhs |-> lhs, operator |-> operator, rhs |-> rhs]
createNotExpression(operand) == [kind |-> "Not", operand |-> operand]
createQueryExpression(identifier, segments) ==
    [kind |-> "Query", identifier |-> identifier, segments |-> segments]
createLiteralExpression(value) == [kind |-> "Literal", value |-> value]
createFunctionExpression(func, args) == [kind |-> "Function", func |-> func, args |-> args]

isSingularSelector(selector) == selector.kind \in {"Name", "Index"}

\* a segment with one selector of any kind: not what isSingularSegment tests
isSingularSegmentAnySelector(segment) ==
    /\ segment.kind = "Child"
    /\ Len(segment.selectors) = 1

isSingularSegment(segment) ==
    /\ segment.kind = "Child"
    /\ Len(segment.selectors) = 1
    /\ isSingularSelector(segment.selectors[1])

isSingularQuery(q) == \A i \in 1..Len(q.segments) : isSingularSegment(q.segments[i])

getExpressionPrecedence(expression) ==
    CASE expression.kind = "Or" -> 1
      [] expression.kind = "And" -> 2
      [] expression.kind = "Comparison" -> 3
      [] expression.kind = "Not" -> 4
      [] OTHER -> 5

-----------------------------------------------------------------------------
(* Function extensions: src/src/function.ts and the extensions the tests   *)
(* register (src/src/expression.test.ts).                                  *)

FunctionExtension(name, parameterTypes, resultType) ==
    [name |-> name, parameterTypes |-> parameterTypes, resultType |-> resultType]

lengthFunction == FunctionExtension("length", <<Value>>, Value)
countFunction == FunctionExtension("count", <<Nodes>>, Value)
matchFunction == FunctionExtension("match", <<Value, Value>>, Logical)
searchFunction == FunctionExtension("search", <<Value, Value>>, Logical)
valueFunction == FunctionExtension("value", <<Nodes>>, Value)

intrinsicFunctions ==
    {lengthFunction, countFunction, matchFunction, searchFunction, valueFunction}

fooFunction == FunctionExtension("foo", <<Nodes>>, Nodes)
bnlFunction == FunctionExtension("bnl", <<Nodes>>, Logical)
bltFunction == FunctionExtension("blt", <<Logical>>, Logical)

\* context.functionExtensions after initQueryContext with the test options
functionExtensions == intrinsicFunctions \cup {fooFunction, bnlFunction, bltFunction}

-----------------------------------------------------------------------------
(* Query contexts: src/src/context.ts.  An optional field is a sequence of *)
(* length 0 (undefined) or 1; options that were not given are <<>>.        *)

\* { functionExtensions?, queryArgument? }
QueryContextOptions(extensions, queryArgument) ==
    [functionExtensions |-> extensions, queryArgument |-> queryArgument]
\* options.functionExtensions as an array of extensions
ExtensionArray(items) == [t |-> "array", items |-> items]
\* options.functionExtensions as an object: members is a function from the
\* property names to the extensions
ExtensionObject(members) == [t |-> "object", members |-> members]

\* { [f.name]: f, ... } for the extensions of a set with distinct names
KeyedByName(extensions) ==
    [n \in {f.name : f \in extensions} |-> CHOOSE f \in extensions : f.name = n]

\* field in object
In(field, object) == field \in DOMAIN object
\* object.field = value
Assign(object, field, value) ==
    [f \in DOMAIN object \cup {field} |-> IF f = field THEN value ELSE object[f]]
\* options?.field
OptionOf(options, field) == IF In(field, options) THEN options[field] ELSE <<>>
\* { ...under, ...over }
Spread(under, over) ==
    [n \in DOMAIN under \cup DOMAIN over |-> IF n \in DOMAIN over THEN over[n] ELSE under[n]]

\* for (const functionExtension of items)
\*     functionExtensions[functionExtension.name] = functionExtension
RECURSIVE AssignByName(_, _, _)
AssignByName(members, items, i) ==
    IF i > Len(items) THEN members
    ELSE AssignByName(Assign(members, items[i].name, items[i]), items, i + 1)

initQueryContext(context, options) ==
    LET c1 == IF ~In("functionExtensions", context)
              THEN Assign(context, "functionExtensions", <<KeyedByName(intrinsicFunctions)>>)
              ELSE context
        c2 == IF ~In("queryArgument", c1) THEN Assign(c1, "queryArgument", <<>>) ELSE c1
        c3 == IF ~In("queryScope", c2) THEN Assign(c2, "queryScope", ScopeNone) ELSE c2
        extensions == OptionOf(options, "functionExtensions")
        c4 == IF extensions # <<>>
              THEN IF extensions[1].t = "array"
                   THEN Assign(c3, "functionExtensions",
                               <<AssignByName(IF c3.functionExtensions # <<>>
                                              THEN c3.functionExtensions[1] ELSE <<>>,
                                              extensions[1].items, 1)>>)
                   ELSE IF c3.functionExtensions # <<>>
                   THEN Assign(c3, "functionExtensions",
                               <<Spread(c3.functionExtensions[1], extensions[1].members)>>)
                   ELSE Assign(c3, "functionExtensions", <<extensions[1].members>>)
              ELSE c3
    IN IF OptionOf(options, "queryArgument") # <<>>
       THEN Assign(c4, "queryArgument", options.queryArgument)
       ELSE c4

\* createContext(options) of the JSON library gives a context with none of
\* the three fields of a query context
createQueryContext(options) == initQueryContext(<<>>, options)

\* options that are a query context already are returned as they are
coerceQueryContext(options) ==
    IF In("queryScope", options) THEN options
    ELSE initQueryContext(<<>>, options)

\* context.functionExtensions?.[name]: an optional extension
FunctionOf(context, name) ==
    IF context.functionExtensions # <<>> /\ name \in DOMAIN context.functionExtensions[1]
    THEN <<context.functionExtensions[1][name]>>
    ELSE <<>>

-----------------------------------------------------------------------------
(* Lexemes                                                                 *)

EOF == "<eof>"

\* charCodeAt(offset), or -1 past the limit; offsets count from 0
At(buf, offset) == IF offset < Len(buf) THEN buf[offset + 1] ELSE EOF

\* the identifiers of the model: all of them lowercase words, so each is a
\* shorthand name and a function name at once
Identifiers ==
    {"a", "b", "x", "j", "k", "true", "false", "null",
     "length", "count", "match", "search", "value", "foo", "bnl", "blt"}

\* isNameFirstChar and isLowercase of the first character of a lexeme
isNameFirstLexeme(c) == c \in Identifiers
isLowercaseLexeme(c) == c \in Identifiers
isSpaceChar(c) == c = " "

\* the integers the model writes: -MaxInt .. MaxInt
MaxInt == 2
IntRange == (0 - MaxInt)..MaxInt
IntLexemes == {ToString(n) : n \in IntRange}
\* c === "-" || isDigit(c)
startsInt(c) == c \in IntLexemes
IntOf(c) == CHOOSE n \in IntRange : ToString(n) = c

\* quoted strings: the lexeme and the string it denotes
StringLexemes ==
    {[lexeme |-> "'j'", value |-> "j"], [lexeme |-> "\"j\"", value |-> "j"],
     [lexeme |-> "'k'", value |-> "k"], [lexeme |-> "\"k\"", value |-> "k"],
     [lexeme |-> "'j j'", value |-> "j j"], [lexeme |-> "\"j j\"", value |-> "j j"]}
startsString(c) == \E l \in StringLexemes : l.lexeme = c
StringOf(c) == (CHOOSE l \in StringLexemes : l.lexeme = c).value

\* a lexeme sequence spells a character string one way only when no word or
\* integer is directly followed by another word or integer
WellLexed(buf) ==
    \A i \in 1..(Len(buf) - 1) :
        ~(buf[i] \in Identifiers \cup IntLexemes /\ buf[i + 1] \in Identifiers \cup IntLexemes)

-----------------------------------------------------------------------------
(* Parser: src/src/parse.ts.  Every parse function returns a record        *)
(* [ok, offset, value, message]: value and the new buf.offset on return,   *)
(* or the QueryError and the offset it carries.                            *)

Return(offset, value) == [ok |-> TRUE, offset |-> offset, value |-> value, message |-> ""]
QueryError(message, offset) == [ok |-> FALSE, offset |-> offset, value |-> <<>>, message |-> message]

RECURSIVE parseBlankSpace(_, _)
parseBlankSpace(buf, offset) ==
    IF offset < Len(buf) /\ isSpaceChar(buf[offset + 1])
    THEN parseBlankSpace(buf, offset + 1)
    ELSE offset

\* parseShorthandName, parseFunctionName, parseInt, parseNumber and
\* parseStringLiteral read one lexeme here; parseNumber, parseStringLiteral
\* and parseShorthandName are modelled character by character further down
parseNameLexeme(buf, offset) ==
    IF ~isNameFirstLexeme(At(buf, offset))
    THEN QueryError("Expected name", offset)
    ELSE Return(offset + 1, At(buf, offset))

parseFunctionName(buf, offset) ==
    IF ~isLowercaseLexeme(At(buf, offset))
    THEN QueryError("Expected identifier", offset)
    ELSE Return(offset + 1, At(buf, offset))

parseInt(buf, offset) ==
    IF ~startsInt(At(buf, offset))
    THEN QueryError("Expected digit", offset)
    ELSE Return(offset + 1, IntOf(At(buf, offset)))

parseNumberLexeme(buf, offset) == parseInt(buf, offset)

parseStringLexeme(buf, offset) ==
    IF ~startsString(At(buf, offset))
    THEN QueryError("Expected string literal", offset)
    ELSE Return(offset + 1, StringOf(At(buf, offset)))

parseNameSelector(buf, offset) ==
    LET name == parseStringLexeme(buf, offset)
    IN IF ~name.ok THEN name ELSE Return(name.offset, createNameSelector(name.value))

parseWildcardSelector(buf, offset) ==
    IF At(buf, offset) # "*"
    THEN QueryError("Expected wildcard selector", offset)
    ELSE Return(offset + 1, createWildcardSelector)

\* [int S]: an optional integer and the blank space after it
OptionalInt(buf, offset) ==
    IF startsInt(At(buf, offset))
    THEN LET n == parseInt(buf, offset)
         IN Return(parseBlankSpace(buf, n.offset), <<n.value>>)
    ELSE Return(offset, <<>>)

parseArraySelector(buf, offset) ==
    LET start == OptionalInt(buf, offset)
    IN IF At(buf, start.offset) # ":"
       THEN IF start.value = <<>>
            THEN QueryError("Expected index selector", start.offset)
            ELSE Return(start.offset, createIndexSelector(start.value[1]))
       ELSE LET end == OptionalInt(buf, parseBlankSpace(buf, start.offset + 1))
            IN IF At(buf, end.offset) = ":"
               THEN LET o == parseBlankSpace(buf, end.offset + 1)
                    IN IF startsInt(At(buf, o))
                       THEN Return(o + 1,
                                createSliceSelector(start.value, end.value, <<IntOf(At(buf, o))>>))
                       ELSE Return(o, createSliceSelector(start.value, end.value, <<>>))
               ELSE Return(end.offset, createSliceSelector(start.value, end.value, <<>>))

parseComparisonOperator(buf, offset) ==
    LET c == At(buf, offset)
    IN CASE c = "==" -> Return(offset + 1, <<"==">>)
         [] c = "=" -> QueryError("Expected comparison operator", offset + 1)
         [] c = "!=" -> Return(offset + 1, <<"!=">>)
         [] c = "!" -> QueryError("Expected comparison operator", offset + 1)
         [] c = "<=" -> Return(offset + 1, <<"<=">>)
         [] c = "<" -> Return(offset + 1, <<"<">>)
         [] c = ">=" -> Return(offset + 1, <<">=">>)
         [] c = ">" -> Return(offset + 1, <<">">>)
         [] OTHER -> Return(offset, <<>>)

checkLogicalType(expression) ==
    IF expression.kind = "Function" /\ expression.func.resultType = Value
    THEN "ValueType function not supported in test expression"
    ELSE ""

\* the check that lets a function with result type Nodes through
checkComparableTypeNodes(expression) ==
    IF expression.kind = "Function" /\ expression.func.resultType = Logical
    THEN "LogicalType function not supported in comparison expression"
    ELSE ""

checkComparableType(expression) ==
    IF expression.kind = "Function" /\ expression.func.resultType = Logical
    THEN "LogicalType function not supported in comparison expression"
    ELSE IF expression.kind = "Function" /\ expression.func.resultType = Nodes
    THEN "NodesType function not supported in comparison expression"
    ELSE ""

checkValueArgumentType(expression) ==
    CASE expression.func.resultType = Value -> ""
      [] expression.func.resultType = Logical ->
            "LogicalType function not supported in ValueType argument position"
      [] expression.func.resultType = Nodes ->
            "NodesType function not supported in ValueType argument position"

checkLogicalArgumentType(expression) ==
    CASE expression.func.resultType = Value ->
            "ValueType function not supported in LogicalType argument position"
      [] expression.func.resultType = Logical -> ""
      [] expression.func.resultType = Nodes -> ""

checkNodesArgumentType(expression) ==
    CASE expression.func.resultType = Value ->
            "ValueType function not supported in NodesType argument position"
      [] expression.func.resultType = Logical ->
            "LogicalType function not supported in NodesType argument position"
      [] expression.func.resultType = Nodes -> ""

\* the check that takes a literal for a Logical parameter
checkArgumentTypeLiteral(parameterType, expression) ==
    IF expression.kind = "Function"
    THEN CASE parameterType = Value -> checkValueArgumentType(expression)
           [] parameterType = Logical -> checkLogicalArgumentType(expression)
           [] parameterType = Nodes -> checkNodesArgumentType(expression)
    ELSE CASE parameterType = Value ->
                IF expression.kind = "Query"
                THEN IF ~isSingularQuery(expression)
                     THEN "Expected singular query expression in ValueType argument position"
                     ELSE ""
                ELSE IF expression.kind # "Literal"
                THEN "Expected literal expression in ValueType argument position"
                ELSE ""
           [] parameterType = Logical -> ""
           [] parameterType = Nodes ->
                IF expression.kind # "Query"
                THEN "Expected query expression in NodesType argument position"
                ELSE ""

\* the message of the QueryError it throws, "" when it returns
checkArgumentType(parameterType, expression) ==
    IF expression.kind = "Function"
    THEN CASE parameterType = Value -> checkValueArgumentType(expression)
           [] parameterType = Logical -> checkLogicalArgumentType(expression)
           [] parameterType = Nodes -> checkNodesArgumentType(expression)
    ELSE CASE parameterType = Value ->
                IF expression.kind = "Query"
                THEN IF ~isSingularQuery(expression)
                     THEN "Expected singular query expression in ValueType argument position"
                     ELSE ""
                ELSE IF expression.kind # "Literal"
                THEN "Expected literal expression in ValueType argument position"
                ELSE ""
           [] parameterType = Logical ->
                IF expression.kind = "Literal"
                THEN "Expected logical expression in LogicalType argument position"
                ELSE ""
           [] parameterType = Nodes ->
                IF expression.kind # "Query"
                THEN "Expected query expression in NodesType argument position"
                ELSE ""

RECURSIVE parseSegments(_, _, _, _)
RECURSIVE parseSegment(_, _, _)
RECURSIVE parseSelectors(_, _, _, _)
RECURSIVE parseSelector(_, _, _)
RECURSIVE parseFilterSelector(_, _, _)
RECURSIVE parseExpression(_, _, _)
RECURSIVE parseOrExpression(_, _, _)
RECURSIVE parseOrOperands(_, _, _, _)
RECURSIVE parseAndExpression(_, _, _)
RECURSIVE parseAndOperands(_, _, _, _)
RECURSIVE parseBasicExpression(_, _, _)
RECURSIVE parseParenExpression(_, _, _)
RECURSIVE parseComparable(_, _, _)
RECURSIVE parseFunctionArguments(_, _, _, _)
RECURSIVE parseArguments(_, _, _, _, _)
RECURSIVE parse(_, _, _, _)

\* segments = *(S segment): the while loop of parseSegments
parseSegments(buf, offset, scope, segments) ==
    LET segment == parse("parseSegment", buf, parseBlankSpace(buf, offset), scope)
    IN IF ~segment.ok THEN segment
       ELSE IF segment.value # <<>>
       THEN parseSegments(buf, segment.offset, scope, Append(segments, segment.value[1]))
       ELSE Return(segment.offset, segments)

\* the value is <<segment>>, or <<>> when parseSegment returns undefined
parseSegment(buf, offset, scope) ==
    LET c0 == At(buf, offset)
        dotCount == IF c0 # "." THEN 0 ELSE IF At(buf, offset + 1) # "." THEN 1 ELSE 2
        o == offset + dotCount
        c == At(buf, o)
        create(selectors) ==
            IF dotCount # 2
            THEN createChildSegment(selectors)
            ELSE createDescendantSegment(selectors)
    IN IF dotCount # 0 /\ c = "*"
       THEN Return(o + 1, <<create(<<createWildcardSelector>>)>>)
       ELSE IF dotCount # 0 /\ isNameFirstLexeme(c)
       THEN LET name == parseNameLexeme(buf, o)
            IN Return(name.offset, <<create(<<createNameSelector(name.value)>>)>>)
       ELSE IF dotCount = 1
       THEN QueryError("Expected dot segment", o)
       ELSE IF c # "["
       THEN IF dotCount = 0
            THEN Return(o, <<>>)
            ELSE QueryError("Expected bracketed selection", o)
       ELSE LET selectors == parseSelectors(buf, parseBlankSpace(buf, o + 1), scope, <<>>)
            IN IF ~selectors.ok THEN selectors
               ELSE Return(selectors.offset, <<create(selectors.value)>>)

\* bracketed-selection: the inner while loop of parseSegment
parseSelectors(buf, offset, scope, selectors) ==
    IF At(buf, offset) = "]"
    THEN Return(offset + 1, selectors)
    ELSE IF selectors # <<>> /\ At(buf, offset) # ","
    THEN QueryError("Expected comma", offset)
    ELSE LET o == IF selectors # <<>> THEN parseBlankSpace(buf, offset + 1) ELSE offset
             selector == parse("parseSelector", buf, o, scope)
         IN IF ~selector.ok THEN selector
            ELSE parseSelectors(buf, parseBlankSpace(buf, selector.offset), scope,
                                Append(selectors, selector.value))

parseSelector(buf, offset, scope) ==
    LET c == At(buf, offset)
    IN IF startsString(c) THEN parseNameSelector(buf, offset)
       ELSE IF c = "*" THEN parseWildcardSelector(buf, offset)
       ELSE IF startsInt(c) \/ c = ":" THEN parseArraySelector(buf, offset)
       ELSE IF c = "?" THEN parse("parseFilterSelector", buf, offset, scope)
       ELSE QueryError("Expected selector", offset)

\* context.queryScope is Expression while the filter body is parsed and is
\* restored in the finally block: the scope is passed down, never returned
parseFilterSelector(buf, offset, scope) ==
    IF At(buf, offset) # "?"
    THEN QueryError("Expected filter selector", offset)
    ELSE LET expression == parse("parseExpression", buf, parseBlankSpace(buf, offset + 1), ScopeExpression)
         IN IF ~expression.ok THEN expression
            ELSE Return(expression.offset, createFilterSelector(expression.value))

parseExpression(buf, offset, scope) == parse("parseOrExpression", buf, offset, scope)

parseOrExpression(buf, offset, scope) ==
    LET first == parse("parseAndExpression", buf, offset, scope)
    IN IF ~first.ok THEN first
       ELSE LET operands == parseOrOperands(buf, first.offset, scope, <<first.value>>)
            IN IF ~operands.ok THEN operands
               ELSE IF Len(operands.value) > 1
               THEN Return(operands.offset, createOrExpression(operands.value))
               ELSE Return(operands.offset, operands.value[1])

\* *(S "||" S logical-and-expr)
parseOrOperands(buf, offset, scope, operands) ==
    LET o == parseBlankSpace(buf, offset)
    IN IF At(buf, o) = "|"
       THEN QueryError("Expected || operator", o + 1)
       ELSE IF At(buf, o) # "||"
       THEN Return(o, operands)
       ELSE LET operand == parse("parseAndExpression", buf, parseBlankSpace(buf, o + 1), scope)
            IN IF ~operand.ok THEN operand
               ELSE parseOrOperands(buf, operand.offset, scope, Append(operands, operand.value))

parseAndExpression(buf, offset, scope) ==
    LET first == parse("parseBasicExpression", buf, offset, scope)
    IN IF ~first.ok THEN first
       ELSE LET operands == parseAndOperands(buf, first.offset, scope, <<first.value>>)
            IN IF ~operands.ok THEN operands
               ELSE IF Len(operands.value) > 1
               THEN Return(operands.offset, createAndExpression(operands.value))
               ELSE Return(operands.offset, operands.value[1])

\* *(S "&&" S basic-expr)
parseAndOperands(buf, offset, scope, operands) ==
    LET o == parseBlankSpace(buf, offset)
    IN IF At(buf, o) = "&"
       THEN QueryError("Expected && operator", o + 1)
       ELSE IF At(buf, o) # "&&"
       THEN Return(o, operands)
       ELSE LET operand == parse("parseBasicExpression", buf, parseBlankSpace(buf, o + 1), scope)
            IN IF ~operand.ok THEN operand
               ELSE parseAndOperands(buf, operand.offset, scope, Append(operands, operand.value))

parseBasicExpression(buf, offset, scope) ==
    LET unaryOp == At(buf, offset) = "!"
        o == IF unaryOp THEN parseBlankSpace(buf, offset + 1) ELSE offset
        negate(r) ==
            IF r.ok /\ unaryOp THEN Return(r.offset, createNotExpression(r.value)) ELSE r
    IN IF At(buf, o) = "("
       THEN negate(parse("parseParenExpression", buf, o, scope))
       ELSE
        LET expr == parse("parseComparable", buf, o, scope)
        IN IF ~expr.ok THEN expr
           ELSE IF unaryOp
           THEN IF scope # ScopeArgument /\ checkLogicalType(expr.value) # ""
                THEN QueryError(checkLogicalType(expr.value), expr.offset)
                ELSE negate(expr)
           ELSE
            LET operator == parseComparisonOperator(buf, parseBlankSpace(buf, expr.offset))
            IN IF ~operator.ok THEN operator
               ELSE IF operator.value = <<>>
               THEN IF scope # ScopeArgument /\ checkLogicalType(expr.value) # ""
                    THEN QueryError(checkLogicalType(expr.value), operator.offset)
                    ELSE Return(operator.offset, expr.value)
               ELSE
                LET o2 == parseBlankSpace(buf, operator.offset)
                IN IF expr.value.kind = "Query" /\ ~isSingularQuery(expr.value)
                   THEN QueryError("Only singular queries can be compared", expr.offset)
                   ELSE IF checkComparableType(expr.value) # ""
                   THEN QueryError(checkComparableType(expr.value), o2)
                   ELSE
                    LET rhs == parse("parseComparable", buf, o2, scope)
                    IN IF ~rhs.ok THEN rhs
                       ELSE IF rhs.value.kind = "Query" /\ ~isSingularQuery(rhs.value)
                       THEN QueryError("Only singular queries can be compared", rhs.offset)
                       ELSE IF checkComparableType(rhs.value) # ""
                       THEN QueryError(checkComparableType(rhs.value), rhs.offset)
                       ELSE Return(rhs.offset,
                                createComparisonExpression(expr.value, operator.value[1], rhs.value))

parseParenExpression(buf, offset, scope) ==
    IF At(buf, offset) # "("
    THEN QueryError("Expected open parenthesis", offset)
    ELSE LET expression == parse("parseExpression", buf, parseBlankSpace(buf, offset + 1), scope)
         IN IF ~expression.ok THEN expression
            ELSE LET o == parseBlankSpace(buf, expression.offset)
                 IN IF At(buf, o) # ")"
                    THEN QueryError("Expected close parenthesis", o)
                    ELSE Return(o + 1, expression.value)

parseComparable(buf, offset, scope) ==
    LET c == At(buf, offset)
    IN IF c = "@" \/ c = "$"
       THEN LET segments == parseSegments(buf, offset + 1, scope, <<>>)
            IN IF ~segments.ok THEN segments
               ELSE Return(segments.offset, createQueryExpression(c, segments.value))
       ELSE IF startsString(c)
       THEN LET value == parseStringLexeme(buf, offset)
            IN Return(value.offset, createLiteralExpression(JStr(value.value)))
       ELSE IF startsInt(c)
       THEN LET value == parseNumberLexeme(buf, offset)
            IN Return(value.offset, createLiteralExpression(JNum(value.value)))
       ELSE IF ~isLowercaseLexeme(c)
       THEN QueryError("Expected comparable expression", offset)
       ELSE LET name == parseFunctionName(buf, offset)
            IN CASE name.value = "true" -> Return(name.offset, createLiteralExpression(JBool(TRUE)))
                 [] name.value = "false" -> Return(name.offset, createLiteralExpression(JBool(FALSE)))
                 [] name.value = "null" -> Return(name.offset, createLiteralExpression(JNull))
                 [] OTHER ->
                    IF \A f \in functionExtensions : f.name # name.value
                    THEN QueryError("Unknown function", name.offset)
                    ELSE parseFunctionArguments(
                            CHOOSE f \in functionExtensions : f.name = name.value,
                            buf, name.offset, scope)

\* parseFunctionArguments without the comparison of args.length with
\* parameterTypes.length
parseFunctionArgumentsUnchecked(func, buf, offset, scope) ==
    IF At(buf, offset) # "("
    THEN QueryError("Expected function arguments", offset)
    ELSE LET args == parseArguments(func, buf, parseBlankSpace(buf, offset + 1), scope, <<>>)
         IN IF ~args.ok THEN args
            ELSE Return(args.offset, createFunctionExpression(func, args.value))

parseFunctionArguments(func, buf, offset, scope) ==
    IF At(buf, offset) # "("
    THEN QueryError("Expected function arguments", offset)
    ELSE LET args == parseArguments(func, buf, parseBlankSpace(buf, offset + 1), scope, <<>>)
         IN IF ~args.ok THEN args
            ELSE IF Len(args.value) # Len(func.parameterTypes)
            THEN QueryError("Expected n arguments", args.offset)
            ELSE Return(args.offset, createFunctionExpression(func, args.value))

\* the while loop of parseFunctionArguments; context.queryScope is Argument
\* while an argument is parsed and is restored in the finally block
parseArguments(func, buf, offset, scope, args) ==
    IF At(buf, offset) = ")"
    THEN Return(offset + 1, args)
    ELSE IF args # <<>> /\ At(buf, offset) # ","
    THEN QueryError("Expected comma", offset)
    ELSE LET o == IF args # <<>> THEN parseBlankSpace(buf, offset + 1) ELSE offset
         IN IF Len(args) >= Len(func.parameterTypes)
            THEN Return(o, args)
            ELSE LET arg == parse("parseExpression", buf, o, ScopeArgument)
                 IN IF ~arg.ok THEN arg
                    ELSE IF checkArgumentType(func.parameterTypes[Len(args) + 1], arg.value) # ""
                    THEN QueryError(
                            checkArgumentType(func.parameterTypes[Len(args) + 1], arg.value),
                            arg.offset)
                    ELSE parseArguments(func, buf, parseBlankSpace(buf, arg.offset), scope,
                                        Append(args, arg.value))

\* the calls the parse functions make to one another: parse(f, buf, offset,
\* scope) is f(buf, context) with buf.offset = offset and context.queryScope
\* = scope
parse(f, buf, offset, scope) ==
    CASE f = "parseSegments" -> parseSegments(buf, offset, scope, <<>>)
      [] f = "parseSegment" -> parseSegment(buf, offset, scope)
      [] f = "parseSelector" -> parseSelector(buf, offset, scope)
      [] f = "parseFilterSelector" -> parseFilterSelector(buf, offset, scope)
      [] f = "parseExpression" -> parseExpression(buf, offset, scope)
      [] f = "parseOrExpression" -> parseOrExpression(buf, offset, scope)
      [] f = "parseAndExpression" -> parseAndExpression(buf, offset, scope)
      [] f = "parseBasicExpression" -> parseBasicExpression(buf, offset, scope)
      [] f = "parseParenExpression" -> parseParenExpression(buf, offset, scope)
      [] f = "parseComparable" -> parseComparable(buf, offset, scope)

\* parseQuery(input: string).  The value is the Query.
parseQuery(in) ==
    IF At(in, 0) # "$"
    THEN QueryError("Expected root identifier", 0)
    ELSE LET segments == parse("parseSegments", in, 1, ScopeNone)
         IN IF ~segments.ok THEN segments
            ELSE IF segments.offset # Len(in)
            THEN QueryError("Invalid JSONPath query", segments.offset)
            ELSE Return(segments.offset, createQuery(segments.value))

-----------------------------------------------------------------------------
(* Formatter: src/src/parse.ts, lines 1538-1975.  The output is the        *)
(* lexeme sequence of the string the code builds; " " is one blank.        *)

\* the names of the model are made of letters, blanks and nothing else, so
\* every character is copied unescaped between single quotes
formatStringLiteral(value) == "'" \o value \o "'"

\* name-first *name-char: true of the words, false of a name with a blank
isValidShorthandName(name) == name \in Identifiers

formatNameSelector(selector) == <<formatStringLiteral(selector.name)>>
formatWildcardSelector(selector) == <<"*">>
formatIndexSelector(selector) == <<ToString(selector.index)>>

formatSliceSelector(selector) ==
    (IF selector.start # <<>> THEN <<ToString(selector.start[1])>> ELSE <<>>)
    \o <<":">>
    \o (IF selector.end # <<>> THEN <<ToString(selector.end[1])>> ELSE <<>>)
    \o (IF selector.step # <<>> THEN <<":", ToString(selector.step[1])>> ELSE <<>>)

formatLiteralExpression(expression) ==
    LET value == expression.value
    IN CASE value.t = "str" -> <<formatStringLiteral(value.s)>>
         [] value.t = "num" -> <<ToString(value.n)>>
         [] value.t = "bool" -> IF value.b THEN <<"true">> ELSE <<"false">>
         [] value.t = "null" -> <<"null">>

formatComparisonOperator(operator) == <<" ", operator, " ">>

RECURSIVE formatSegment(_)
RECURSIVE formatSelectors(_, _)
RECURSIVE formatSelector(_)
RECURSIVE formatSegments(_, _)
RECURSIVE formatExpression(_)
RECURSIVE formatOperands(_, _, _, _)
RECURSIVE formatArguments(_, _)
RECURSIVE parenthesizeExpression(_, _)

\* the for loop of formatQuery and of formatQueryExpression
formatSegments(segments, i) ==
    IF i > Len(segments) THEN <<>>
    ELSE formatSegment(segments[i]) \o formatSegments(segments, i + 1)

\* formatChildSegment and formatDescendantSegment
formatSegment(segment) ==
    LET dots == IF segment.kind = "Child" THEN <<>> ELSE <<".">>
        selector == segment.selectors[1]
    IN IF Len(segment.selectors) = 1 /\ selector.kind = "Name"
                                     /\ isValidShorthandName(selector.name)
       THEN dots \o <<".", selector.name>>
       ELSE IF Len(segment.selectors) = 1 /\ selector.kind = "Wildcard"
       THEN dots \o <<".", "*">>
       ELSE dots \o dots \o <<"[">> \o formatSelectors(segment.selectors, 1) \o <<"]">>

formatSelectors(selectors, i) ==
    IF i > Len(selectors) THEN <<>>
    ELSE (IF i # 1 THEN <<",", " ">> ELSE <<>>)
         \o formatSelector(selectors[i]) \o formatSelectors(selectors, i + 1)

formatFilterSelector(selector) == <<"?">> \o formatExpression(selector.expression)

formatSelector(selector) ==
    CASE selector.kind = "Name" -> formatNameSelector(selector)
      [] selector.kind = "Wildcard" -> formatWildcardSelector(selector)
      [] selector.kind = "Index" -> formatIndexSelector(selector)
      [] selector.kind = "Slice" -> formatSliceSelector(selector)
      [] selector.kind = "Filter" -> formatFilterSelector(selector)

\* the for loops of formatOrExpression (" || ", 1) and formatAndExpression (" && ", 2)
formatOperands(operands, i, operator, requiredPrecedence) ==
    IF i > Len(operands) THEN <<>>
    ELSE (IF i # 1 THEN <<" ", operator, " ">> ELSE <<>>)
         \o parenthesizeExpression(operands[i], requiredPrecedence)
         \o formatOperands(operands, i + 1, operator, requiredPrecedence)

formatOrExpression(expression) == formatOperands(expression.operands, 1, "||", 1)
formatAndExpression(expression) == formatOperands(expression.operands, 1, "&&", 2)

formatComparisonExpression(expression) ==
    parenthesizeExpression(expression.lhs, 3)
    \o formatComparisonOperator(expression.operator)
    \o parenthesizeExpression(expression.rhs, 3)

formatNotExpression(expression) == <<"!">> \o parenthesizeExpression(expression.operand, 4)

formatQueryExpression(expression) ==
    <<expression.identifier>> \o formatSegments(expression.segments, 1)

formatArguments(args, i) ==
    IF i > Len(args) THEN <<>>
    ELSE (IF i # 1 THEN <<",", " ">> ELSE <<>>)
         \o formatExpression(args[i]) \o formatArguments(args, i + 1)

formatFunctionExpression(expression) ==
    <<expression.func.name, "(">> \o formatArguments(expression.args, 1) \o <<")">>

formatExpression(expression) ==
    CASE expression.kind = "Or" -> formatOrExpression(expression)
      [] expression.kind = "And" -> formatAndExpression(expression)
      [] expression.kind = "Comparison" -> formatComparisonExpression(expression)
      [] expression.kind = "Not" -> formatNotExpression(expression)
      [] expression.kind = "Query" -> formatQueryExpression(expression)
      [] expression.kind = "Literal" -> formatLiteralExpression(expression)
      [] expression.kind = "Function" -> formatFunctionExpression(expression)

parenthesizeExpression(expression, requiredPrecedence) ==
    IF getExpressionPrecedence(expression) < requiredPrecedence
    THEN <<"(">> \o formatExpression(expression) \o <<")">>
    ELSE formatExpression(expression)

formatQuery(q) == <<"$">> \o formatSegments(q.segments, 1)

-----------------------------------------------------------------------------
(* Evaluator: src/unnamed/part_001.  Every evaluate function returns a     *)
(* record [error, value, log]: error is "" on return and the message of    *)
(* the thrown error otherwise; log is the sequence of the embedded         *)
(* sub-queries evaluated so far, each with its identifier, the filter node *)
(* it was evaluated at and the root it started from.  The parameter        *)
(* queryArgument is context.queryArgument at the call: the code sets it    *)
(* before the calls it makes and restores it in a finally block.           *)

Returned(value, log) == [error |-> "", value |-> value, log |-> log]
Thrown(error, log) == [error |-> error, value |-> <<>>, log |-> log]

existenceTest(nodes) == Len(nodes) # 0

\* a ValueType is a sequence of length 0 (Nothing, undefined) or 1
valueTypeList(value) == value

singularValue(nodes) == IF Len(nodes) = 1 THEN <<nodes[1]>> ELSE <<>>

\* new RegExp(pattern) throws a SyntaxError for a pattern that is not a
\* regular expression; of the strings of the model that is "[", alone or
\* inside "^(?:" + regex + ")$"
ValidRegExp(regex) == regex # "["

\* the regular expressions of the model are plain words without operators:
\* such a word matches itself and is found in the strings that contain it
RegExpTest(regex, value, whole) ==
    IF whole THEN regex = value
    ELSE regex = value \/ (regex = "j" /\ value = "j j")

\* func.evaluate(args, context): [error, value]
Evaluate(func, args) ==
    CASE func.name = "length" ->
            LET value == args[1]
            IN IF value = <<>> THEN Returned(<<>>, <<>>)
               ELSE IF isString(value[1]) THEN Returned(<<JNum(unicodeLength(value[1].s))>>, <<>>)
               ELSE IF isArray(value[1]) THEN Returned(<<JNum(Len(value[1].a))>>, <<>>)
               ELSE IF isObject(value[1]) THEN Returned(<<JNum(Len(value[1].o))>>, <<>>)
               ELSE Returned(<<>>, <<>>)
      [] func.name = "count" -> Returned(<<JNum(Len(args[1]))>>, <<>>)
      [] func.name \in {"match", "search"} ->
            LET value == args[1]
                regex == args[2]
            IN IF value = <<>> \/ regex = <<>> THEN Returned(FALSE, <<>>)
               ELSE IF ~isString(value[1]) \/ ~isString(regex[1]) THEN Returned(FALSE, <<>>)
               ELSE IF ~ValidRegExp(regex[1].s)
               THEN Thrown("SyntaxError: Invalid regular expression", <<>>)
               ELSE Returned(RegExpTest(regex[1].s, value[1].s, func.name = "match"), <<>>)
      [] func.name = "value" -> Returned(singularValue(args[1]), <<>>)
      [] OTHER -> Thrown("Error: Never called", <<>>)

evaluateNameSelector(selector, node) == getChild(node, selector.name)

evaluateWildcardSelector(selector, node) == getChildren(node)

\* the index selector with a null element taken for a missing one
evaluateIndexSelectorNonNull(selector, node) ==
    LET index == IF selector.index < 0 /\ isArray(node)
                 THEN selector.index + Len(node.a)
                 ELSE selector.index
    IN IF isArray(node) /\ 0 <= index /\ index < Len(node.a) /\ node.a[index + 1] # JNull
       THEN <<node.a[index + 1]>>
       ELSE <<>>

evaluateIndexSelector(selector, node) ==
    LET index == IF selector.index < 0 /\ isArray(node)
                 THEN selector.index + Len(node.a)
                 ELSE selector.index
    IN IF isArray(node) /\ 0 <= index /\ index < Len(node.a)
       THEN <<node.a[index + 1]>>
       ELSE <<>>

Min(a, b) == IF a < b THEN a ELSE b
Max(a, b) == IF a > b THEN a ELSE b

\* for (let i = lower; i < upper; i += step) with step > 0
RECURSIVE SliceUp(_, _, _, _)
SliceUp(node, i, upper, step) ==
    IF i < upper THEN <<node.a[i + 1]>> \o SliceUp(node, i + step, upper, step) ELSE <<>>

\* for (let i = upper; i > lower; i += step) with step < 0
RECURSIVE SliceDown(_, _, _, _)
SliceDown(node, i, lower, step) ==
    IF i > lower THEN <<node.a[i + 1]>> \o SliceDown(node, i + step, lower, step) ELSE <<>>

\* the slice with a negative step and an absent end stopping above index
\* len - 1 instead of below index 0
evaluateSliceSelectorEndDefault(selector, node) ==
    LET len == IF isArray(node) THEN Len(node.a) ELSE 0
        step == IF len # 0 THEN (IF selector.step # <<>> THEN selector.step[1] ELSE 1) ELSE 0
        norm(n) == IF n >= 0 THEN n ELSE len + n
    IN IF step > 0
       THEN LET start == norm(IF selector.start # <<>> THEN selector.start[1] ELSE 0)
                end == norm(IF selector.end # <<>> THEN selector.end[1] ELSE len)
                lower == Min(Max(start, 0), len)
                upper == Min(Max(end, 0), len)
            IN SliceUp(node, lower, upper, step)
       ELSE IF step < 0
       THEN LET start == norm(IF selector.start # <<>> THEN selector.start[1] ELSE len - 1)
                end == norm(IF selector.end # <<>> THEN selector.end[1] ELSE 0 - 1)
                upper == Min(Max(start, -1), len - 1)
                lower == Min(Max(end, -1), len - 1)
            IN SliceDown(node, upper, lower, step)
       ELSE <<>>

evaluateSliceSelector(selector, node) ==
    LET len == IF isArray(node) THEN Len(node.a) ELSE 0
        step == IF len # 0 THEN (IF selector.step # <<>> THEN selector.step[1] ELSE 1) ELSE 0
        norm(n) == IF n >= 0 THEN n ELSE len + n
    IN IF step > 0
       THEN LET start == norm(IF selector.start # <<>> THEN selector.start[1] ELSE 0)
                end == norm(IF selector.end # <<>> THEN selector.end[1] ELSE len)
                lower == Min(Max(start, 0), len)
                upper == Min(Max(end, 0), len)
            IN SliceUp(node, lower, upper, step)
       ELSE IF step < 0
       THEN LET start == norm(IF selector.start # <<>> THEN selector.start[1] ELSE len - 1)
                end == norm(IF selector.end # <<>> THEN selector.end[1] ELSE (0 - len) - 1)
                upper == Min(Max(start, -1), len - 1)
                lower == Min(Max(end, -1), len - 1)
            IN SliceDown(node, upper, lower, step)
       ELSE <<>>

\* the switch with an undefined ordering read as "less" by all four operators
CompareNodeListsOrdered(lhs, operator, rhs) ==
    IF Len(lhs) = 0 \/ Len(rhs) = 0
    THEN CASE operator \in {"==", "<=", ">="} -> Len(lhs) = Len(rhs)
           [] operator = "!=" -> Len(lhs) # Len(rhs)
           [] operator \in {"<", ">"} -> FALSE
    ELSE IF Len(lhs) # 1 \/ Len(rhs) # 1
    THEN FALSE
    ELSE LET c == compare(lhs[1], rhs[1])
             orElse(d) == IF c = <<>> THEN d ELSE c[1]
         IN CASE operator = "==" -> equal(lhs[1], rhs[1])
              [] operator = "!=" -> ~equal(lhs[1], rhs[1])
              [] operator = "<" -> orElse(-1) < 0
              [] operator = "<=" -> orElse(-1) <= 0
              [] operator = ">" -> orElse(-1) > 0
              [] operator = ">=" -> orElse(-1) >= 0

\* the switch with <= and >= false as soon as one operand is empty
CompareNodeListsStrict(lhs, operator, rhs) ==
    IF Len(lhs) = 0 \/ Len(rhs) = 0
    THEN CASE operator = "==" -> Len(lhs) = Len(rhs)
           [] operator = "!=" -> Len(lhs) # Len(rhs)
           [] operator \in {"<", ">", "<=", ">="} -> FALSE
    ELSE IF Len(lhs) # 1 \/ Len(rhs) # 1
    THEN FALSE
    ELSE LET c == compare(lhs[1], rhs[1])
             orElse(d) == IF c = <<>> THEN d ELSE c[1]
         IN CASE operator = "==" -> equal(lhs[1], rhs[1])
              [] operator = "!=" -> ~equal(lhs[1], rhs[1])
              [] operator = "<" -> orElse(1) < 0
              [] operator = "<=" -> orElse(1) <= 0
              [] operator = ">" -> orElse(-1) > 0
              [] operator = ">=" -> orElse(-1) >= 0

\* the switch of evaluateComparisonExpression on two evaluated operands
CompareNodeLists(lhs, operator, rhs) ==
    IF Len(lhs) = 0 \/ Len(rhs) = 0
    THEN CASE operator \in {"==", "<=", ">="} -> Len(lhs) = Len(rhs)
           [] operator = "!=" -> Len(lhs) # Len(rhs)
           [] operator \in {"<", ">"} -> FALSE
    ELSE IF Len(lhs) # 1 \/ Len(rhs) # 1
    THEN FALSE
    ELSE LET c == compare(lhs[1], rhs[1])
             orElse(d) == IF c = <<>> THEN d ELSE c[1]
         IN CASE operator = "==" -> equal(lhs[1], rhs[1])
              [] operator = "!=" -> ~equal(lhs[1], rhs[1])
              [] operator = "<" -> orElse(1) < 0
              [] operator = "<=" -> orElse(1) <= 0
              [] operator = ">" -> orElse(-1) > 0
              [] operator = ">=" -> orElse(-1) >= 0

RECURSIVE evaluateSegments(_, _, _, _, _)
RECURSIVE evaluateSegment(_, _, _)
RECURSIVE evaluateChildSegment(_, _, _)
RECURSIVE ChildLoopNodeMajor(_, _, _, _, _, _, _)
RECURSIVE ChildLoop(_, _, _, _, _, _, _)
RECURSIVE evaluateDescendantSegment(_, _, _)
RECURSIVE DescendantLoopSelectorMajor(_, _, _, _, _, _, _)
RECURSIVE DescendantLoop(_, _, _, _, _, _, _)
RECURSIVE evaluateSelector(_, _, _)
RECURSIVE evaluateFilterSelector(_, _, _)
RECURSIVE FilterLoop(_, _, _, _, _, _)
RECURSIVE evaluateExpression(_, _, _)
RECURSIVE evaluateOrExpression(_, _, _)
RECURSIVE OrLoopEager(_, _, _, _, _)
RECURSIVE OrLoop(_, _, _, _, _)
RECURSIVE evaluateAndExpression(_, _, _)
RECURSIVE AndLoop(_, _, _, _, _)
RECURSIVE evaluateComparisonExpression(_, _, _)
RECURSIVE evaluateNotExpression(_, _, _)
RECURSIVE evaluateQueryTestExpression(_, _, _)
RECURSIVE evaluateFunctionTestExpression(_, _, _)
RECURSIVE evaluateComparableExpression(_, _, _)
RECURSIVE evaluateQueryExpression(_, _, _)
RECURSIVE evaluateFunctionExpression(_, _, _)
RECURSIVE evaluateFunctionArguments(_, _, _)
RECURSIVE ArgumentLoop(_, _, _, _, _, _)
RECURSIVE evaluateFunctionArgument(_, _, _, _)
RECURSIVE evaluateValueFunctionArgument(_, _, _)
RECURSIVE evaluateLogicalFunctionArgument(_, _, _)
RECURSIVE evaluateNodesFunctionArgument(_, _, _)
RECURSIVE CallFunction(_, _, _)
RECURSIVE evaluate(_, _, _, _)

\* for (const segment of segments) nodes = evaluate("evaluateSegment", segment, nodes, context)
evaluateSegments(segments, i, nodes, queryArgument, log) ==
    IF i > Len(segments) THEN Returned(nodes, log)
    ELSE LET r == evaluate("evaluateSegment", segments[i], nodes, queryArgument)
         IN IF r.error # "" THEN Thrown(r.error, log \o r.log)
            ELSE evaluateSegments(segments, i + 1, r.value, queryArgument, log \o r.log)

evaluateSegment(segment, nodes, queryArgument) ==
    CASE segment.kind = "Child" -> evaluate("evaluateChildSegment", segment, nodes, queryArgument)
      [] segment.kind = "Descendant" -> evaluate("evaluateDescendantSegment", segment, nodes, queryArgument)

\* nodes in the outer loop (j), selectors in the inner loop (i): the order
\* evaluateChildSegment does not use
ChildLoopNodeMajor(selectors, nodes, i, j, queryArgument, output, log) ==
    IF j > Len(nodes) THEN Returned(output, log)
    ELSE IF i > Len(selectors)
    THEN ChildLoopNodeMajor(selectors, nodes, 1, j + 1, queryArgument, output, log)
    ELSE LET r == evaluate("evaluateSelector", selectors[i], nodes[j], queryArgument)
         IN IF r.error # "" THEN Thrown(r.error, log \o r.log)
            ELSE ChildLoopNodeMajor(selectors, nodes, i + 1, j, queryArgument,
                                    output \o r.value, log \o r.log)

\* selectors in the outer loop (i), nodes in the inner loop (j)
ChildLoop(selectors, nodes, i, j, queryArgument, output, log) ==
    IF i > Len(selectors) THEN Returned(output, log)
    ELSE IF j > Len(nodes) THEN ChildLoop(selectors, nodes, i + 1, 1, queryArgument, output, log)
    ELSE LET r == evaluate("evaluateSelector", selectors[i], nodes[j], queryArgument)
         IN IF r.error # "" THEN Thrown(r.error, log \o r.log)
            ELSE ChildLoop(selectors, nodes, i, j + 1, queryArgument,
                           output \o r.value, log \o r.log)

evaluateChildSegment(segment, nodes, queryArgument) ==
    ChildLoop(segment.selectors, nodes, 1, 1, queryArgument, <<>>, <<>>)

\* selectors in the outer loop (i), the visited nodes in the inner loop (j):
\* the order evaluateDescendantSegment does not use
DescendantLoopSelectorMajor(selectors, visit, j, i, queryArgument, output, log) ==
    IF i > Len(selectors) THEN Returned(output, log)
    ELSE IF j > Len(visit)
    THEN DescendantLoopSelectorMajor(selectors, visit, 1, i + 1, queryArgument, output, log)
    ELSE LET r == evaluate("evaluateSelector", selectors[i], visit[j], queryArgument)
         IN IF r.error # "" THEN Thrown(r.error, log \o r.log)
            ELSE DescendantLoopSelectorMajor(selectors, visit, j + 1, i, queryArgument,
                                             output \o r.value, log \o r.log)

\* visit: the nodes the selectors are applied to, each input node followed
\* by its descendants (j); selectors in the inner loop (i)
DescendantLoop(selectors, visit, j, i, queryArgument, output, log) ==
    IF j > Len(visit) THEN Returned(output, log)
    ELSE IF i > Len(selectors)
    THEN DescendantLoop(selectors, visit, j + 1, 1, queryArgument, output, log)
    ELSE LET r == evaluate("evaluateSelector", selectors[i], visit[j], queryArgument)
         IN IF r.error # "" THEN Thrown(r.error, log \o r.log)
            ELSE DescendantLoop(selectors, visit, j, i + 1, queryArgument,
                                output \o r.value, log \o r.log)

RECURSIVE VisitOrder(_, _)
VisitOrder(nodes, j) ==
    IF j > Len(nodes) THEN <<>>
    ELSE <<nodes[j]>> \o getDescendants(nodes[j]) \o VisitOrder(nodes, j + 1)

evaluateDescendantSegment(segment, nodes, queryArgument) ==
    IF Len(segment.selectors) # 0
    THEN DescendantLoop(segment.selectors, VisitOrder(nodes, 1), 1, 1, queryArgument, <<>>, <<>>)
    ELSE Returned(<<>>, <<>>)

evaluateSelector(selector, node, queryArgument) ==
    CASE selector.kind = "Name" -> Returned(evaluateNameSelector(selector, node), <<>>)
      [] selector.kind = "Wildcard" -> Returned(evaluateWildcardSelector(selector, node), <<>>)
      [] selector.kind = "Index" -> Returned(evaluateIndexSelector(selector, node), <<>>)
      [] selector.kind = "Slice" -> Returned(evaluateSliceSelector(selector, node), <<>>)
      [] selector.kind = "Filter" -> evaluate("evaluateFilterSelector", selector, node, queryArgument)

FilterLoop(expression, children, i, queryArgument, output, log) ==
    IF i > Len(children) THEN Returned(output, log)
    ELSE LET r == evaluate("evaluateExpression", expression, children[i], queryArgument)
         IN IF r.error # "" THEN Thrown(r.error, log \o r.log)
            ELSE FilterLoop(expression, children, i + 1, queryArgument,
                            IF r.value THEN Append(output, children[i]) ELSE output,
                            log \o r.log)

evaluateFilterSelector(selector, node, queryArgument) ==
    FilterLoop(selector.expression, getChildren(node), 1, queryArgument, <<>>, <<>>)

evaluateExpression(expression, node, queryArgument) ==
    CASE expression.kind = "Or" -> evaluate("evaluateOrExpression", expression, node, queryArgument)
      [] expression.kind = "And" -> evaluate("evaluateAndExpression", expression, node, queryArgument)
      [] expression.kind = "Comparison" ->
            evaluate("evaluateComparisonExpression", expression, node, queryArgument)
      [] expression.kind = "Not" -> evaluate("evaluateNotExpression", expression, node, queryArgument)
      [] expression.kind = "Query" -> evaluate("evaluateQueryTestExpression", expression, node, queryArgument)
      [] expression.kind = "Literal" -> Thrown("TypeError: Invalid literal expression", <<>>)
      [] expression.kind = "Function" ->
            evaluate("evaluateFunctionTestExpression", expression, node, queryArgument)

\* every operand is evaluated before the disjunction is taken: the loop
\* that evaluateOrExpression does not run
OrLoopEager(operands, i, node, queryArgument, log) ==
    IF i > Len(operands) THEN Returned(FALSE, log)
    ELSE LET r == evaluate("evaluateExpression", operands[i], node, queryArgument)
         IN IF r.error # "" THEN Thrown(r.error, log \o r.log)
            ELSE LET rest == OrLoopEager(operands, i + 1, node, queryArgument, log \o r.log)
                 IN IF rest.error # "" THEN rest
                    ELSE Returned(r.value \/ rest.value, rest.log)

OrLoop(operands, i, node, queryArgument, log) ==
    IF i > Len(operands) THEN Returned(FALSE, log)
    ELSE LET r == evaluate("evaluateExpression", operands[i], node, queryArgument)
         IN IF r.error # "" THEN Thrown(r.error, log \o r.log)
            ELSE IF r.value THEN Returned(TRUE, log \o r.log)
            ELSE OrLoop(operands, i + 1, node, queryArgument, log \o r.log)

evaluateOrExpression(expression, node, queryArgument) ==
    OrLoop(expression.operands, 1, node, queryArgument, <<>>)

AndLoop(operands, i, node, queryArgument, log) ==
    IF i > Len(operands) THEN Returned(TRUE, log)
    ELSE LET r == evaluate("evaluateExpression", operands[i], node, queryArgument)
         IN IF r.error # "" THEN Thrown(r.error, log \o r.log)
            ELSE IF ~r.value THEN Returned(FALSE, log \o r.log)
            ELSE AndLoop(operands, i + 1, node, queryArgument, log \o r.log)

evaluateAndExpression(expression, node, queryArgument) ==
    AndLoop(expression.operands, 1, node, queryArgument, <<>>)

evaluateComparisonExpression(expression, node, queryArgument) ==
    LET lhs == evaluate("evaluateComparableExpression", expression.lhs, node, queryArgument)
    IN IF lhs.error # "" THEN lhs
       ELSE LET rhs == evaluate("evaluateComparableExpression", expression.rhs, node, queryArgument)
            IN IF rhs.error # "" THEN Thrown(rhs.error, lhs.log \o rhs.log)
               ELSE Returned(CompareNodeLists(lhs.value, expression.operator, rhs.value),
                             lhs.log \o rhs.log)

evaluateNotExpression(expression, node, queryArgument) ==
    LET r == evaluate("evaluateExpression", expression.operand, node, queryArgument)
    IN IF r.error # "" THEN r ELSE Returned(~r.value, r.log)

evaluateQueryTestExpression(expression, node, queryArgument) ==
    LET r == evaluate("evaluateQueryExpression", expression, node, queryArgument)
    IN IF r.error # "" THEN r ELSE Returned(existenceTest(r.value), r.log)

\* expression.func.evaluate(args, context) after evaluateFunctionArguments
CallFunction(expression, node, queryArgument) ==
    LET args == evaluate("evaluateFunctionArguments", expression, node, queryArgument)
    IN IF args.error # "" THEN args
       ELSE LET r == Evaluate(expression.func, args.value)
            IN IF r.error # "" THEN Thrown(r.error, args.log) ELSE Returned(r.value, args.log)

evaluateFunctionTestExpression(expression, node, queryArgument) ==
    LET args == evaluate("evaluateFunctionArguments", expression, node, queryArgument)
        resultType == expression.func.resultType
    IN IF args.error # "" THEN args
       ELSE CASE resultType = Value ->
                    Thrown("TypeError: ValueType function not supported in test expression",
                           args.log)
              [] resultType = Logical ->
                    LET r == Evaluate(expression.func, args.value)
                    IN IF r.error # "" THEN Thrown(r.error, args.log)
                       ELSE Returned(r.value, args.log)
              [] resultType = Nodes ->
                    LET r == Evaluate(expression.func, args.value)
                    IN IF r.error # "" THEN Thrown(r.error, args.log)
                       ELSE Returned(existenceTest(r.value), args.log)

evaluateComparableExpression(expression, node, queryArgument) ==
    CASE expression.kind = "Literal" -> Returned(<<expression.value>>, <<>>)
      [] expression.kind = "Query" -> evaluate("evaluateQueryExpression", expression, node, queryArgument)
      [] expression.kind = "Function" ->
            evaluate("evaluateFunctionExpression", expression, node, queryArgument)
      [] OTHER -> Thrown("TypeError: Invalid ComparableExpressionKind", <<>>)

evaluateQueryExpression(expression, node, queryArgument) ==
    LET r == IF expression.identifier = "@" THEN node ELSE queryArgument
        event == [identifier |-> expression.identifier, node |-> node, root |-> r]
    IN evaluateSegments(expression.segments, 1, <<r>>, r, <<event>>)

evaluateFunctionExpression(expression, node, queryArgument) ==
    LET args == evaluate("evaluateFunctionArguments", expression, node, queryArgument)
        resultType == expression.func.resultType
    IN IF args.error # "" THEN args
       ELSE CASE resultType = Value ->
                    LET r == Evaluate(expression.func, args.value)
                    IN IF r.error # "" THEN Thrown(r.error, args.log)
                       ELSE Returned(valueTypeList(r.value), args.log)
              [] resultType = Logical ->
                    Thrown("TypeError: LogicalType function not supported in comparison expression",
                           args.log)
              [] resultType = Nodes ->
                    Thrown("TypeError: NodesType function not supported in comparison expression",
                           args.log)

ArgumentLoop(expression, i, node, queryArgument, args, log) ==
    IF i > Len(expression.func.parameterTypes) THEN Returned(args, log)
    ELSE LET r == evaluateFunctionArgument(expression.func.parameterTypes[i],
                                           expression.args[i], node, queryArgument)
         IN IF r.error # "" THEN Thrown(r.error, log \o r.log)
            ELSE ArgumentLoop(expression, i + 1, node, queryArgument,
                              Append(args, r.value), log \o r.log)

evaluateFunctionArguments(expression, node, queryArgument) ==
    IF Len(expression.args) # Len(expression.func.parameterTypes)
    THEN Thrown("TypeError: Expected n arguments", <<>>)
    ELSE ArgumentLoop(expression, 1, node, queryArgument, <<>>, <<>>)

evaluateFunctionArgument(parameterType, expression, node, queryArgument) ==
    CASE parameterType = Value -> evaluate("evaluateValueFunctionArgument", expression, node, queryArgument)
      [] parameterType = Logical ->
            evaluate("evaluateLogicalFunctionArgument", expression, node, queryArgument)
      [] parameterType = Nodes -> evaluate("evaluateNodesFunctionArgument", expression, node, queryArgument)

evaluateValueFunctionArgument(expression, node, queryArgument) ==
    IF expression.kind = "Function"
    THEN CASE expression.func.resultType = Value -> evaluate("CallFunction", expression, node, queryArgument)
           [] expression.func.resultType = Logical ->
                Thrown("TypeError: LogicalType function not supported in ValueType argument position", <<>>)
           [] expression.func.resultType = Nodes ->
                Thrown("TypeError: NodesType function not supported in ValueType argument position", <<>>)
    ELSE IF expression.kind = "Literal"
    THEN Returned(<<expression.value>>, <<>>)
    ELSE IF expression.kind = "Query"
    THEN LET r == evaluate("evaluateQueryExpression", expression, node, queryArgument)
         IN IF r.error # "" THEN r ELSE Returned(singularValue(r.value), r.log)
    ELSE Thrown("TypeError: ValueType function argument must be a ValueType function expression, a literal expression, or a singular query expression", <<>>)

evaluateLogicalFunctionArgument(expression, node, queryArgument) ==
    IF expression.kind = "Function"
    THEN CASE expression.func.resultType = Value ->
                Thrown("TypeError: ValueType function not supported in LogicalType argument position", <<>>)
           [] expression.func.resultType = Logical ->
                evaluate("CallFunction", expression, node, queryArgument)
           [] expression.func.resultType = Nodes ->
                LET r == evaluate("CallFunction", expression, node, queryArgument)
                IN IF r.error # "" THEN r ELSE Returned(existenceTest(r.value), r.log)
    ELSE evaluate("evaluateExpression", expression, node, queryArgument)

evaluateNodesFunctionArgument(expression, node, queryArgument) ==
    IF expression.kind = "Function"
    THEN CASE expression.func.resultType = Value ->
                Thrown("TypeError: ValueType function not supported in NodesType argument position", <<>>)
           [] expression.func.resultType = Logical ->
                Thrown("TypeError: LogicalType function not supported in NodesType argument position", <<>>)
           [] expression.func.resultType = Nodes ->
                evaluate("CallFunction", expression, node, queryArgument)
    ELSE IF expression.kind = "Query"
    THEN evaluate("evaluateQueryExpression", expression, node, queryArgument)
    ELSE Thrown("TypeError: NodesType function argument must be a NodesType function expression or a query expression", <<>>)

\* the calls the evaluate functions make to one another: evaluate(f, x, node,
\* queryArgument) is f(x, node, context) with context.queryArgument =
\* queryArgument
evaluate(f, x, node, queryArgument) ==
    CASE f = "evaluateSegment" -> evaluateSegment(x, node, queryArgument)
      [] f = "evaluateChildSegment" -> evaluateChildSegment(x, node, queryArgument)
      [] f = "evaluateDescendantSegment" -> evaluateDescendantSegment(x, node, queryArgument)
      [] f = "evaluateSelector" -> evaluateSelector(x, node, queryArgument)
      [] f = "evaluateFilterSelector" -> evaluateFilterSelector(x, node, queryArgument)
      [] f = "evaluateExpression" -> evaluateExpression(x, node, queryArgument)
      [] f = "evaluateOrExpression" -> evaluateOrExpression(x, node, queryArgument)
      [] f = "evaluateAndExpression" -> evaluateAndExpression(x, node, queryArgument)
      [] f = "evaluateComparisonExpression" -> evaluateComparisonExpression(x, node, queryArgument)
      [] f = "evaluateNotExpression" -> evaluateNotExpression(x, node, queryArgument)
      [] f = "evaluateQueryTestExpression" -> evaluateQueryTestExpression(x, node, queryArgument)
      [] f = "evaluateFunctionTestExpression" -> evaluateFunctionTestExpression(x, node, queryArgument)
      [] f = "evaluateComparableExpression" -> evaluateComparableExpression(x, node, queryArgument)
      [] f = "evaluateQueryExpression" -> evaluateQueryExpression(x, node, queryArgument)
      [] f = "evaluateFunctionExpression" -> evaluateFunctionExpression(x, node, queryArgument)
      [] f = "evaluateFunctionArguments" -> evaluateFunctionArguments(x, node, queryArgument)
      [] f = "evaluateValueFunctionArgument" -> evaluateValueFunctionArgument(x, node, queryArgument)
      [] f = "evaluateLogicalFunctionArgument" -> evaluateLogicalFunctionArgument(x, node, queryArgument)
      [] f = "evaluateNodesFunctionArgument" -> evaluateNodesFunctionArgument(x, node, queryArgument)
      [] f = "CallFunction" -> CallFunction(x, node, queryArgument)

\* evaluateQuery(query, root, options): context.queryArgument is saved, is
\* root while the segments run, and is put back in the finally block
evaluateQuery(q, r, options) ==
    LET context == coerceQueryContext(options)
        queryArgument == context.queryArgument
        running == Assign(context, "queryArgument", <<r>>)
    IN evaluateSegments(q.segments, 1, <<r>>, running.queryArgument[1], <<>>)

-----------------------------------------------------------------------------
(* Query strings of the model                                              *)

\* the deepest nesting of the expression forms in a filter body
MaxDepth == 3
\* the most segments after the root identifier in a query without filters
MaxSegments == 2

UnaryForm(pre, post) == [pre |-> pre, post |-> post]
BinaryForm(pre, mid, post) == [pre |-> pre, mid |-> mid, post |-> post]
Infix(operator) == BinaryForm(<<>>, operator, <<>>)
Call(name) == UnaryForm(<<name, "(">>, <<")">>)
Call2(name) == BinaryForm(<<name, "(">>, <<",", " ">>, <<")">>)

\* the texts built from the atoms by nesting the forms at most depth deep;
\* the second operand of a binary form is an atom
RECURSIVE Texts(_, _, _, _)
Texts(atoms, unary, binary, depth) ==
    IF depth = 0 THEN atoms
    ELSE LET inner == Texts(atoms, unary, binary, depth - 1)
         IN inner
            \cup {f.pre \o t \o f.post : f \in unary, t \in inner}
            \cup {f.pre \o t \o f.mid \o u \o f.post : f \in binary, t \in inner, u \in atoms}

\* $[?<text>]
FilterQueries(texts) == {<<"$", "[", "?">> \o t \o <<"]">> : t \in texts}

RECURSIVE SegmentTexts(_, _)
SegmentTexts(segments, n) ==
    IF n = 0 THEN {<<>>}
    ELSE LET shorter == SegmentTexts(segments, n - 1)
         IN shorter \cup {t \o g : t \in shorter, g \in segments}

SegmentQueries(segments, n) == {<<"$">> \o t : t \in SegmentTexts(segments, n)}

FormatAtoms == {<<"@">>, <<"@", ".", "a">>, <<"1">>}
FormatUnary == {UnaryForm(<<"!">>, <<>>), UnaryForm(<<"(">>, <<")">>), Call("count")}
FormatBinary == {Infix(<<"&&">>), Infix(<<" ", "||", " ">>), Infix(<<" ", "==", " ">>)}
FormatSegments ==
    {<<".", "a">>, <<".", "*">>, <<".", ".", "a">>, <<".", ".", "[", "*", "]">>,
     <<"[", "'j j'", "]">>, <<"[", "\"j\"", "]">>, <<"[", "1", "]">>, <<"[", "-1", "]">>,
     <<"[", "*", "]">>, <<"[", "1", ":", "2", "]">>, <<"[", ":", ":", "-1", "]">>,
     <<"[", ":", "]">>, <<"[", "0", ",", " ", "'k'", "]">>, <<"[", " ", "0", " ", ",", "0", "]">>,
     <<" ", ".", "b">>, <<"[", "?", "@", ".", "b", "<", "'k'", "]">>}

FormatInputs ==
    FilterQueries(Texts(FormatAtoms, FormatUnary, FormatBinary, MaxDepth))
    \cup SegmentQueries(FormatSegments, MaxSegments)

FormatRoots == {JArr(<<JNum(1), JObj(<<Member("a", JNum(1))>>)>>)}

-----------------------------------------------------------------------------
(* The program: a query string is parsed, the query is formatted and the   *)
(* formatted string parsed and formatted again, or the query is evaluated  *)
(* against the root.                                                       *)

InitWith(inputs, roots) ==
    /\ pc = "start"
    /\ input \in {i \in inputs : WellLexed(i)}
    /\ root \in roots
    /\ query = <<>>
    /\ text = <<>>
    /\ query2 = <<>>
    /\ text2 = <<>>
    /\ result = <<>>
    /\ subject = <<>>
    /\ given = <<>>
    /\ outcome = <<>>

Init == InitWith(FormatInputs, FormatRoots)

\* query = parseQuery(input)
ParseQuery ==
    /\ pc = "start"
    /\ query' = parseQuery(input)
    /\ pc' = "parsed"
    /\ UNCHANGED <<input, root, text, query2, text2, result, subject, given, outcome>>

\* text = formatQuery(query)
FormatQuery ==
    /\ pc = "parsed"
    /\ query.ok
    /\ text' = formatQuery(query.value)
    /\ pc' = "formatted"
    /\ UNCHANGED <<input, root, query, query2, text2, result, subject, given, outcome>>

\* query2 = parseQuery(text)
ParseFormatted ==
    /\ pc = "formatted"
    /\ query2' = parseQuery(text)
    /\ pc' = "reparsed"
    /\ UNCHANGED <<input, root, query, text, text2, result, subject, given, outcome>>

\* text2 = formatQuery(query2)
FormatReparsed ==
    /\ pc = "reparsed"
    /\ query2.ok
    /\ text2' = formatQuery(query2.value)
    /\ pc' = "reformatted"
    /\ UNCHANGED <<input, root, query, text, query2, result, subject, given, outcome>>

\* result = evaluateQuery(query, root, options) with the options in subject
EvaluateQuery ==
    /\ pc = "parsed"
    /\ query.ok
    /\ result' = evaluateQuery(query.value, root, subject)
    /\ pc' = "evaluated"
    /\ UNCHANGED <<input, root, query, text, query2, text2, subject, given, outcome>>

Next ==
    \/ ParseQuery
    \/ FormatQuery
    \/ ParseFormatted
    \/ FormatReparsed
    \/ EvaluateQuery

Spec == Init /\ [][Next]_vars

-----------------------------------------------------------------------------
(* C1: round trip.  For every string that parseQuery accepts, the string   *)
(* formatQuery makes of the parsed query is accepted by parseQuery again,  *)
(* and formatting that second parse gives the same string.                 *)
RoundTrip ==
    /\ pc = "reparsed" => query2.ok
    /\ pc = "reformatted" => text2 = text

-----------------------------------------------------------------------------
(* Queries with filters inside the sub-queries of filters                  *)

ScopeAtoms == {<<"@">>, <<"$">>, <<"$", ".", "x">>, <<"true">>}
ScopeUnary ==
    {UnaryForm(<<"!">>, <<>>), UnaryForm(<<"@", "[", "?">>, <<"]">>),
     UnaryForm(<<"$", "[", "?">>, <<"]">>)}
ScopeBinary == {Infix(<<" ", "==", " ">>), Infix(<<" ", "&&", " ">>)}
ScopeInputs == FilterQueries(Texts(ScopeAtoms, ScopeUnary, ScopeBinary, MaxDepth))
ScopeRoots ==
    {JObj(<<Member("x", JNum(1)), Member("a", JArr(<<JNum(1), JNum(2)>>))>>),
     JArr(<<JArr(<<JNum(1)>>)>>)}

InitScope == InitWith(ScopeInputs, ScopeRoots)
SpecScope == InitScope /\ [][Next]_vars

(* C2: in one evaluateQuery(q, root) call every embedded $ sub-query, at   *)
(* any filter nesting depth, starts from the top-level root, and every     *)
(* embedded @ sub-query starts from the current filter node.               *)
RootBinding ==
    pc = "evaluated" =>
        \A k \in 1..Len(result.log) :
            /\ result.log[k].identifier = "$" => result.log[k].root = root
            /\ result.log[k].identifier = "@" => result.log[k].root = result.log[k].node

\* the TypeErrors the evaluate functions throw themselves
EvaluatorErrors ==
    {"TypeError: Invalid literal expression",
     "TypeError: ValueType function not supported in test expression",
     "TypeError: Invalid ComparableExpressionKind",
     "TypeError: LogicalType function not supported in comparison expression",
     "TypeError: NodesType function not supported in comparison expression",
     "TypeError: Expected n arguments",
     "TypeError: LogicalType function not supported in ValueType argument position",
     "TypeError: NodesType function not supported in ValueType argument position",
     "TypeError: ValueType function argument must be a ValueType function expression, a literal expression, or a singular query expression",
     "TypeError: ValueType function not supported in LogicalType argument position",
     "TypeError: ValueType function not supported in NodesType argument position",
     "TypeError: LogicalType function not supported in NodesType argument position",
     "TypeError: NodesType function argument must be a NodesType function expression or a query expression"}

(* C3: for every query string parseQuery accepts and every JSON value,     *)
(* evaluateQuery completes without the evaluator throwing one of its own   *)
(* errors.                                                                 *)
NoEvaluatorError == pc = "evaluated" => result.error \notin EvaluatorErrors

-----------------------------------------------------------------------------
(* One comparison evaluated at one filter node                             *)

ComparisonOperators == {"==", "!=", "<", "<=", ">", ">="}

\* literals and singular queries
ComparisonOperands ==
    {createLiteralExpression(JNum(1)), createLiteralExpression(JNum(2)),
     createLiteralExpression(JStr("a")), createLiteralExpression(JNull),
     createQueryExpression("@", <<createChildSegment(<<createNameSelector("a")>>)>>),
     createQueryExpression("@", <<createChildSegment(<<createNameSelector("b")>>)>>),
     createQueryExpression("@", <<createChildSegment(<<createNameSelector("d")>>)>>)}

ComparisonNodes ==
    {JObj(<<>>),
     JObj(<<Member("a", JNum(1))>>),
     JObj(<<Member("a", JNum(2)), Member("b", JNum(1))>>),
     JObj(<<Member("a", JStr("a")), Member("b", JStr("b"))>>),
     JObj(<<Member("a", JNull), Member("b", JBool(TRUE))>>),
     JObj(<<Member("a", JArr(<<JNum(1)>>)), Member("b", JArr(<<JNum(1)>>))>>),
     JObj(<<Member("a", JObj(<<Member("j", JNum(1)), Member("k", JNum(2))>>)),
            Member("b", JObj(<<Member("k", JNum(2)), Member("j", JNum(1))>>))>>),
     JObj(<<Member("b", JStr("a"))>>)}

InitComparison ==
    /\ pc = "comparison"
    /\ subject \in {createComparisonExpression(lhs, operator, rhs) :
                        lhs \in ComparisonOperands, operator \in ComparisonOperators,
                        rhs \in ComparisonOperands}
    /\ given \in ComparisonNodes
    /\ outcome = <<>>
    /\ input = <<>>
    /\ root = <<>>
    /\ query = <<>>
    /\ text = <<>>
    /\ query2 = <<>>
    /\ text2 = <<>>
    /\ result = <<>>

\* outcome = evaluateComparisonExpression(subject, given, context)
EvaluateComparison ==
    /\ pc = "comparison"
    /\ outcome' = evaluateComparisonExpression(subject, given, given)
    /\ pc' = "compared"
    /\ UNCHANGED <<input, root, query, text, query2, text2, result, subject, given>>

SpecComparison == InitComparison /\ [][EvaluateComparison]_vars

\* the nodelists the two operands of the comparison evaluate to
Lhs == evaluateComparableExpression(subject.lhs, given, given).value
Rhs == evaluateComparableExpression(subject.rhs, given, given).value

(* C4: with each operand a nodelist of length 0 or 1: both empty gives     *)
(* == true, != false, < false, <= true, > false, >= true; exactly one      *)
(* empty gives != true and every other operator false; both present gives  *)
(* == and != by JSON deep equality and <, <=, >, >= by the sign of         *)
(* compare(a, b), an undefined ordering giving false for all four.  A      *)
(* missing member is not equal to the literal null.                        *)
ComparisonTable ==
    pc = "compared" =>
        /\ Len(Lhs) <= 1 /\ Len(Rhs) <= 1
        /\ outcome.error = ""
        /\ outcome.value =
            IF Lhs = <<>> /\ Rhs = <<>>
            THEN subject.operator \in {"==", "<=", ">="}
            ELSE IF Lhs = <<>> \/ Rhs = <<>>
            THEN subject.operator = "!="
            ELSE LET order == compare(Lhs[1], Rhs[1])
                 IN CASE subject.operator = "==" -> equal(Lhs[1], Rhs[1])
                      [] subject.operator = "!=" -> ~equal(Lhs[1], Rhs[1])
                      [] subject.operator = "<" -> order = <<-1>>
                      [] subject.operator = "<=" -> order \in {<<-1>>, <<0>>}
                      [] subject.operator = ">" -> order = <<1>>
                      [] subject.operator = ">=" -> order \in {<<0>>, <<1>>}
        /\ (subject.operator = "==" /\ Lhs = <<>> /\ Rhs = <<JNull>>) => ~outcome.value

\* @.d == null at a node without a member d: false
MissingIsNotNull ==
    /\ pc = "compared"
    /\ subject.operator = "=="
    /\ subject.lhs.kind = "Query"
    /\ Lhs = <<>>
    /\ Rhs = <<JNull>>
    /\ outcome.value = FALSE

(* C5 as stated: == with a Nothing operand is true only when the other     *)
(* operand is Nothing too, != is true iff exactly one operand is Nothing,  *)
(* and each of <, >, <=, >= is false whenever either operand is Nothing.   *)
NothingSemanticsAsStated ==
    (pc = "compared" /\ (Lhs = <<>> \/ Rhs = <<>>)) =>
        CASE subject.operator = "==" -> outcome.value = (Lhs = <<>> /\ Rhs = <<>>)
          [] subject.operator = "!=" -> outcome.value = ((Lhs = <<>>) # (Rhs = <<>>))
          [] OTHER -> outcome.value = FALSE

(* C5: == with a Nothing operand is true only when the other operand is    *)
(* Nothing too, != is true iff exactly one operand is Nothing, < and > are *)
(* false whenever either operand is Nothing, and <= and >= are true when   *)
(* both operands are Nothing and false when exactly one is.                *)
NothingSemantics ==
    (pc = "compared" /\ (Lhs = <<>> \/ Rhs = <<>>)) =>
        CASE subject.operator \in {"==", "<=", ">="} ->
                outcome.value = (Lhs = <<>> /\ Rhs = <<>>)
          [] subject.operator = "!=" -> outcome.value = ((Lhs = <<>>) # (Rhs = <<>>))
          [] subject.operator \in {"<", ">"} -> outcome.value = FALSE

\* @.d <= @.b at a node with neither member: true
BothNothingOrdered ==
    /\ pc = "compared"
    /\ subject.operator = "<="
    /\ Lhs = <<>>
    /\ Rhs = <<>>
    /\ outcome.value = TRUE

-----------------------------------------------------------------------------
(* Queries with function calls and comparisons                             *)

TypingAtoms == {<<"@">>, <<"@", "[", "*", "]">>, <<"1">>}
TypingUnary ==
    {UnaryForm(<<"!">>, <<>>), Call("value"), Call("count"), Call("blt"), Call("match")}
TypingBinary ==
    {Infix(<<" ", "==", " ">>), Infix(<<" ", "&&", " ">>), Call2("match"), Call2("count"),
     BinaryForm(<<>>, <<" ", "==", " ", "foo", "(">>, <<")">>)}
TypingInputs == FilterQueries(Texts(TypingAtoms, TypingUnary, TypingBinary, MaxDepth))
TypingRoots == {JArr(<<JArr(<<JNum(1)>>), JStr("a")>>)}

InitTyping == InitWith(TypingInputs, TypingRoots)
SpecTyping == InitTyping /\ [][Next]_vars

\* the expressions of a query, each with the position it stands in: "test"
\* (a filter body, an operand of ||, && or !), "comparable" (an operand of
\* a comparison) or "argument" (an argument of a function call)
RECURSIVE WalkExpression(_, _)
RECURSIVE WalkList(_, _, _)
RECURSIVE WalkSegments(_, _)
RECURSIVE WalkSelectors(_, _)
WalkExpression(e, position) ==
    <<[expression |-> e, position |-> position]>>
    \o CASE e.kind \in {"Or", "And"} -> WalkList(e.operands, 1, "test")
         [] e.kind = "Not" -> WalkExpression(e.operand, "test")
         [] e.kind = "Comparison" ->
                WalkExpression(e.lhs, "comparable") \o WalkExpression(e.rhs, "comparable")
         [] e.kind = "Query" -> WalkSegments(e.segments, 1)
         [] e.kind = "Literal" -> <<>>
         [] e.kind = "Function" -> WalkList(e.args, 1, "argument")
WalkList(expressions, i, position) ==
    IF i > Len(expressions) THEN <<>>
    ELSE WalkExpression(expressions[i], position) \o WalkList(expressions, i + 1, position)
WalkSegments(segments, i) ==
    IF i > Len(segments) THEN <<>>
    ELSE WalkSelectors(segments[i].selectors, 1) \o WalkSegments(segments, i + 1)
WalkSelectors(selectors, i) ==
    IF i > Len(selectors) THEN <<>>
    ELSE (IF selectors[i].kind = "Filter"
          THEN WalkExpression(selectors[i].expression, "test")
          ELSE <<>>)
         \o WalkSelectors(selectors, i + 1)

\* the expressions of the parsed query
Parsed == WalkSegments(query.value.segments, 1)

FunctionNamed(name) == CHOOSE f \in functionExtensions : f.name = name
FunctionNames == {f.name : f \in functionExtensions}

\* the index of the bracket that closes the one opened just before index i
RECURSIVE Closing(_, _, _)
Closing(buf, i, depth) ==
    IF i > Len(buf) THEN 0
    ELSE IF buf[i] \in {")", "]"}
    THEN IF depth = 0 THEN i ELSE Closing(buf, i + 1, depth - 1)
    ELSE IF buf[i] \in {"(", "["} THEN Closing(buf, i + 1, depth + 1)
    ELSE Closing(buf, i + 1, depth)

\* the index of the bracket that opens the one closed just after index i
RECURSIVE Opening(_, _, _)
Opening(buf, i, depth) ==
    IF i < 1 THEN 0
    ELSE IF buf[i] \in {"(", "["}
    THEN IF depth = 0 THEN i ELSE Opening(buf, i - 1, depth - 1)
    ELSE IF buf[i] \in {")", "]"} THEN Opening(buf, i - 1, depth + 1)
    ELSE Opening(buf, i - 1, depth)

\* the commas between index i and index j that lie in no inner bracket
RECURSIVE Commas(_, _, _, _)
Commas(buf, i, j, depth) ==
    IF i >= j THEN 0
    ELSE IF buf[i] \in {"(", "["} THEN Commas(buf, i + 1, j, depth + 1)
    ELSE IF buf[i] \in {")", "]"} THEN Commas(buf, i + 1, j, depth - 1)
    ELSE (IF buf[i] = "," /\ depth = 0 THEN 1 ELSE 0) + Commas(buf, i + 1, j, depth)

\* the function calls written in buf: the index of the name, and the number
\* of arguments written between its parentheses
WrittenCalls(buf) ==
    {i \in 1..(Len(buf) - 2) :
        buf[i] \in FunctionNames /\ buf[i + 1] = "(" /\ Closing(buf, i + 2, 0) # 0}
WrittenArguments(buf, i) ==
    IF buf[i + 2] = ")" THEN 0 ELSE 1 + Commas(buf, i + 2, Closing(buf, i + 2, 0), 0)

\* the comparison operators written in buf with " " on both sides, whose
\* left operand ends at i - 2 and whose right operand starts at i + 2
WrittenComparisons(buf) ==
    {i \in 3..(Len(buf) - 2) :
        buf[i] \in ComparisonOperators /\ buf[i - 1] = " " /\ buf[i + 1] = " "}
\* the operand is a call of a function whose result type is not Value
EndsNonValueCall(buf, j) ==
    /\ buf[j] = ")"
    /\ Opening(buf, j - 1, 0) > 1
    /\ buf[Opening(buf, j - 1, 0) - 1] \in FunctionNames
    /\ FunctionNamed(buf[Opening(buf, j - 1, 0) - 1]).resultType # Value
StartsNonValueCall(buf, j) ==
    /\ buf[j] \in FunctionNames
    /\ FunctionNamed(buf[j]).resultType # Value
\* the operand is the wildcard query @[*]
EndsWildcardQuery(buf, j) ==
    j >= 4 /\ buf[j] = "]" /\ buf[j - 1] = "*" /\ buf[j - 2] = "[" /\ buf[j - 3] = "@"
StartsWildcardQuery(buf, j) ==
    j + 2 <= Len(buf) /\ buf[j] = "@" /\ buf[j + 1] = "[" /\ buf[j + 2] = "*"

(* C6: parseQuery fails on every comparison with an operand that is a      *)
(* non-singular query or a call of a function whose result type is Logical *)
(* or Nodes, and every Comparison in a parsed query has operands that are  *)
(* a Literal, a singular Query or a Function with result type Value.       *)
SingularQueryGate ==
    pc = "parsed" =>
        /\ (\E i \in WrittenComparisons(input) :
                \/ EndsNonValueCall(input, i - 2) \/ StartsNonValueCall(input, i + 2)
                \/ EndsWildcardQuery(input, i - 2) \/ StartsWildcardQuery(input, i + 2))
            => ~query.ok
        /\ query.ok =>
            \A k \in 1..Len(Parsed) :
                Parsed[k].position = "comparable" =>
                    LET e == Parsed[k].expression
                    IN \/ e.kind = "Literal"
                       \/ e.kind = "Query" /\ isSingularQuery(e)
                       \/ e.kind = "Function" /\ e.func.resultType = Value

\* a comparison with a wildcard query is thrown out, and one of a Value
\* function with a literal is parsed
ComparisonRejected ==
    /\ pc = "parsed"
    /\ input = <<"$", "[", "?", "@", "[", "*", "]", " ", "==", " ", "1", "]">>
    /\ ~query.ok
    /\ query.message = "Only singular queries can be compared"

(* C7: parseQuery rejects every query in which a call of a function whose  *)
(* result type is Value is a filter body or an operand of &&, || or !,     *)
(* wherever that logical expression stands, the argument of a Logical      *)
(* parameter included.                                                     *)
NoValueFunctionTest ==
    (pc = "parsed" /\ query.ok) =>
        \A k \in 1..Len(Parsed) :
            Parsed[k].position = "test" =>
                ~(Parsed[k].expression.kind = "Function"
                  /\ Parsed[k].expression.func.resultType = Value)

(* C9: a function call written with a number of arguments other than the   *)
(* length of the function's parameterTypes fails to parse, and every       *)
(* Function in a parsed query has as many args as parameterTypes.          *)
ExactArity ==
    pc = "parsed" =>
        /\ (\E i \in WrittenCalls(input) :
                WrittenArguments(input, i) # Len(FunctionNamed(input[i]).parameterTypes))
            => ~query.ok
        /\ query.ok =>
            \A k \in 1..Len(Parsed) :
                Parsed[k].expression.kind = "Function" =>
                    Len(Parsed[k].expression.args)
                        = Len(Parsed[k].expression.func.parameterTypes)

\* match written with one argument and count written with two are thrown
\* out; match with two arguments is parsed
TooFewArguments ==
    /\ pc = "parsed"
    /\ input = <<"$", "[", "?", "match", "(", "@", ")", "]">>
    /\ ~query.ok
    /\ query.message = "Expected n arguments"

-----------------------------------------------------------------------------
(* One argument checked against one parameter type                         *)

\* the deepest nesting of the expression forms in an argument
MaxArgumentDepth == 2

ArgumentBinary == TypingBinary \cup {Infix(<<" ", "||", " ">>)}
ArgumentTexts == Texts(TypingAtoms, TypingUnary, ArgumentBinary, MaxArgumentDepth)

\* subject is an argument as parseFunctionArguments parses it, given the
\* type of its parameter
InitArgument ==
    /\ pc = "argument"
    /\ input \in {t \in ArgumentTexts :
                    /\ WellLexed(t)
                    /\ parseExpression(t, 0, ScopeArgument).ok
                    /\ parseExpression(t, 0, ScopeArgument).offset = Len(t)}
    /\ subject = parseExpression(input, 0, ScopeArgument).value
    /\ given \in {Value, Logical, Nodes}
    /\ outcome = <<>>
    /\ root = <<>>
    /\ query = <<>>
    /\ text = <<>>
    /\ query2 = <<>>
    /\ text2 = <<>>
    /\ result = <<>>

\* outcome = the message checkArgumentType(given, subject, buf) throws
CheckArgumentType ==
    /\ pc = "argument"
    /\ outcome' = checkArgumentType(given, subject)
    /\ pc' = "checked"
    /\ UNCHANGED <<input, root, query, text, query2, text2, result, subject, given>>

SpecArgument == InitArgument /\ [][CheckArgumentType]_vars

-----------------------------------------------------------------------------
(* One child segment evaluated on one nodelist                             *)

\* the most selectors in the segment, and the most nodes in the nodelist
MaxSelectors == 2
MaxNodes == 2

ChildSelectors ==
    {createIndexSelector(0), createIndexSelector(-1), createNameSelector("a"),
     createWildcardSelector,
     createFilterSelector(createQueryExpression("@", <<>>))}
ChildNodes ==
    {JArr(<<JStr("a"), JStr("b")>>), JObj(<<Member("a", JNum(1)), Member("b", JNum(2))>>),
     JArr(<<JNum(1)>>)}

RECURSIVE SequencesOf(_, _)
SequencesOf(set, n) ==
    IF n = 0 THEN {<<>>}
    ELSE LET shorter == SequencesOf(set, n - 1)
         IN shorter \cup {Append(q, x) : q \in shorter, x \in set}

InitChild ==
    /\ pc = "child"
    /\ subject \in {createChildSegment(selectors) :
                        selectors \in SequencesOf(ChildSelectors, MaxSelectors) \ {<<>>}}
    /\ given \in SequencesOf(ChildNodes, MaxNodes)
    /\ root = JNull
    /\ outcome = <<>>
    /\ input = <<>>
    /\ query = <<>>
    /\ text = <<>>
    /\ query2 = <<>>
    /\ text2 = <<>>
    /\ result = <<>>

\* outcome = evaluateChildSegment(subject, given, context)
EvaluateChildSegment ==
    /\ pc = "child"
    /\ outcome' = evaluateChildSegment(subject, given, root)
    /\ pc' = "selected"
    /\ UNCHANGED <<input, root, query, text, query2, text2, result, subject, given>>

SpecChild == InitChild /\ [][EvaluateChildSegment]_vars

\* the nodes of selector (k - 1) \div n + 1 at node (k - 1) % n + 1 of the n
\* nodes, for k = 1, 2, ...: every node under the first selector, then every
\* node under the second, and so on
RECURSIVE SelectorMajor(_, _, _)
SelectorMajor(selectors, nodes, k) ==
    IF k > Len(selectors) * Len(nodes) THEN <<>>
    ELSE evaluateSelector(selectors[((k - 1) \div Len(nodes)) + 1],
                          nodes[((k - 1) % Len(nodes)) + 1], root).value
         \o SelectorMajor(selectors, nodes, k + 1)

(* C10: evaluateChildSegment returns the concatenation, for each selector  *)
(* in source order and under it each input node in input order, of         *)
(* evaluateSelector(selector, node); nothing is deduplicated.              *)
ChildSegmentOrder ==
    pc = "selected" =>
        /\ outcome.error = ""
        /\ outcome.value = SelectorMajor(subject.selectors, given, 1)

\* [0, 0] on ["a", "b"] gives "a" twice
SelectedTwice ==
    /\ pc = "selected"
    /\ subject.selectors = <<createIndexSelector(0), createIndexSelector(0)>>
    /\ given = <<JArr(<<JStr("a"), JStr("b")>>)>>
    /\ outcome.value = <<JStr("a"), JStr("a")>>

\* ---------------------------------------------------------------------------
\* evaluateDescendantSegment on its own

DescendantSelectors ==
    {createIndexSelector(0), createNameSelector("a"), createWildcardSelector,
     createFilterSelector(createQueryExpression("@", <<>>))}
DescendantNodes ==
    {JArr(<<JArr(<<JNum(1), JArr(<<JNum(2)>>)>>), JNum(3)>>),
     JObj(<<Member("b", JObj(<<Member("a", JNum(1))>>)), Member("a", JArr(<<JNum(2)>>))>>),
     JNum(1)}

\* the variables of the query pipeline, unused by the unit specifications
PipelineIdle ==
    /\ input = <<>>
    /\ query = <<>>
    /\ text = <<>>
    /\ query2 = <<>>
    /\ text2 = <<>>
    /\ result = <<>>

InitDescendant ==
    /\ pc = "descendant"
    /\ subject \in {createDescendantSegment(selectors) :
                        selectors \in SequencesOf(DescendantSelectors, MaxSelectors)}
    /\ given \in SequencesOf(DescendantNodes, MaxNodes)
    /\ root = JNull
    /\ outcome = <<>>
    /\ PipelineIdle

\* outcome = evaluateDescendantSegment(subject, given, context)
EvaluateDescendantSegment ==
    /\ pc = "descendant"
    /\ outcome' = evaluateDescendantSegment(subject, given, root)
    /\ pc' = "descended"
    /\ UNCHANGED <<input, root, query, text, query2, text2, result, subject, given>>

SpecDescendant == InitDescendant /\ [][EvaluateDescendantSegment]_vars

\* a node, then each of its children (array elements by index, object
\* members as inserted) with the whole subtree of one child before the next
RECURSIVE PreOrder(_)
RECURSIVE PreOrderFrom(_, _)
PreOrder(node) ==
    <<node>> \o (IF isArray(node) THEN PreOrderFrom(node.a, 1)
                 ELSE IF isObject(node)
                 THEN PreOrderFrom([k \in 1..Len(node.o) |-> node.o[k].v], 1)
                 ELSE <<>>)
PreOrderFrom(children, k) ==
    IF k > Len(children) THEN <<>>
    ELSE PreOrder(children[k]) \o PreOrderFrom(children, k + 1)

\* every selector, in source order, on one node
RECURSIVE ApplySelectors(_, _, _)
ApplySelectors(selectors, node, i) ==
    IF i > Len(selectors) THEN <<>>
    ELSE evaluateSelector(selectors[i], node, root).value
         \o ApplySelectors(selectors, node, i + 1)

\* every selector on each node of a list, node after node
RECURSIVE ApplyEach(_, _, _)
ApplyEach(selectors, visited, j) ==
    IF j > Len(visited) THEN <<>>
    ELSE ApplySelectors(selectors, visited[j], 1) \o ApplyEach(selectors, visited, j + 1)

\* for each input node in order: the node and its subtree in pre-order
RECURSIVE DocumentOrder(_, _, _)
DocumentOrder(selectors, nodes, j) ==
    IF j > Len(nodes) THEN <<>>
    ELSE ApplyEach(selectors, PreOrder(nodes[j]), 1) \o DocumentOrder(selectors, nodes, j + 1)

(* C11: evaluateDescendantSegment returns, for each input node in order,   *)
(* the results of every selector (in source order) on the node itself and  *)
(* then on each of its descendants in pre-order, so the matches of a       *)
(* parent precede those of its descendants; with an empty selector list    *)
(* the result is empty.                                                    *)
DescendantSegmentOrder ==
    pc = "descended" =>
        /\ outcome.error = ""
        /\ outcome.value = DocumentOrder(subject.selectors, given, 1)
        /\ Len(subject.selectors) = 0 => outcome.value = <<>>

\* ..[*, 0] on [[1, [2]], 3]: the matches at the root, then those at [1, [2]],
\* then those at [2]: 8 nodes
ParentBeforeDescendant ==
    /\ pc = "descended"
    /\ subject.selectors = <<createWildcardSelector, createIndexSelector(0)>>
    /\ given = <<JArr(<<JArr(<<JNum(1), JArr(<<JNum(2)>>)>>), JNum(3)>>)>>
    /\ outcome.value = <<JArr(<<JNum(1), JArr(<<JNum(2)>>)>>), JNum(3),
                         JArr(<<JNum(1), JArr(<<JNum(2)>>)>>),
                         JNum(1), JArr(<<JNum(2)>>), JNum(1),
                         JNum(2), JNum(2)>>

\* ---------------------------------------------------------------------------
\* evaluateSliceSelector on its own

MaxBound == 4
MaxStep == 3
MaxLength == 3

Optional(set) == {<<>>} \cup {<<n>> : n \in set}
\* [0, 1, ..., length - 1]: the element at index i is the number i
ArrayOfLength(length) == JArr([k \in 1..length |-> JNum(k - 1)])
SliceSelectors ==
    {createSliceSelector(start, end, step) :
        start \in Optional((0 - MaxBound)..MaxBound),
        end \in Optional((0 - MaxBound)..MaxBound),
        step \in Optional((0 - MaxStep)..MaxStep)}
SliceNodes ==
    {ArrayOfLength(length) : length \in 0..MaxLength}
    \cup {JObj(<<Member("a", JNum(1))>>), JStr("a")}

InitSlice ==
    /\ pc = "slice"
    /\ subject \in SliceSelectors
    /\ given \in SliceNodes
    /\ root = JNull
    /\ outcome = <<>>
    /\ PipelineIdle

\* outcome = evaluateSliceSelector(subject, given)
EvaluateSliceSelector ==
    /\ pc = "slice"
    /\ outcome' = evaluateSliceSelector(subject, given)
    /\ pc' = "sliced"
    /\ UNCHANGED <<input, root, query, text, query2, text2, result, subject, given>>

SpecSlice == InitSlice /\ [][EvaluateSliceSelector]_vars

Clamp(n, low, high) == IF n < low THEN low ELSE IF n > high THEN high ELSE n
Normalize(n, L) == IF n < 0 THEN n + L ELSE n
OrElse(optional, default) == IF optional = <<>> THEN default ELSE optional[1]

\* the indices of the rule, in the order they are yielded, for an array of
\* length L: with first the first index and count the number of indices,
\* index k is first + (k - 1) * s
SliceIndices(selector, L) ==
    LET s == IF selector.step = <<>> THEN (IF L > 0 THEN 1 ELSE 0) ELSE selector.step[1]
    IN IF s > 0
       THEN LET lower == Clamp(Normalize(OrElse(selector.start, 0), L), 0, L)
                upper == Clamp(Normalize(OrElse(selector.end, L), L), 0, L)
                count == IF upper > lower THEN ((upper - lower) + (s - 1)) \div s ELSE 0
            IN [k \in 1..count |-> lower + (k - 1) * s]
       ELSE IF s < 0
       THEN LET upper == Clamp(Normalize(OrElse(selector.start, L - 1), L), -1, L - 1)
                lower == Clamp(Normalize(OrElse(selector.end, (0 - L) - 1), L), -1, L - 1)
                count == IF upper > lower
                         THEN ((upper - lower) + ((0 - s) - 1)) \div (0 - s) ELSE 0
            IN [k \in 1..count |-> upper + (k - 1) * s]
       ELSE <<>>

(* C12: on an array of length L evaluateSliceSelector yields exactly the   *)
(* elements at the indices of the slice rule, in that order, and each such *)
(* index i satisfies 0 <= i < L; a step of 0 and a node that is not an     *)
(* array yield the empty nodelist.                                         *)
SliceSemantics ==
    pc = "sliced" =>
        LET L == IF isArray(given) THEN Len(given.a) ELSE 0
            indices == SliceIndices(subject, L)
        IN /\ \A k \in 1..Len(indices) : 0 <= indices[k] /\ indices[k] < L
           /\ outcome = [k \in 1..Len(indices) |-> given.a[indices[k] + 1]]
           /\ ~isArray(given) => outcome = <<>>
           /\ subject.step = <<0>> => outcome = <<>>

\* [::-1] on [0, 1, 2] gives 2, 1, 0
ReversedSlice ==
    /\ pc = "sliced"
    /\ subject = createSliceSelector(<<>>, <<>>, <<-1>>)
    /\ given = ArrayOfLength(3)
    /\ outcome = <<JNum(2), JNum(1), JNum(0)>>

\* ---------------------------------------------------------------------------
\* evaluateIndexSelector on its own

IndexSelectors == {createIndexSelector(i) : i \in (0 - MaxBound)..MaxBound}
IndexNodes ==
    {ArrayOfLength(length) : length \in 0..MaxLength}
    \cup {JArr(<<JNull>>), JArr(<<JNull, JNum(1)>>), JArr(<<JNum(1), JNull>>),
          JObj(<<Member("a", JNum(1))>>), JStr("a"), JNum(1), JNull}

InitIndex ==
    /\ pc = "index"
    /\ subject \in IndexSelectors
    /\ given \in IndexNodes
    /\ root = JNull
    /\ outcome = <<>>
    /\ PipelineIdle

\* outcome = evaluateIndexSelector(subject, given)
EvaluateIndexSelector ==
    /\ pc = "index"
    /\ outcome' = evaluateIndexSelector(subject, given)
    /\ pc' = "indexed"
    /\ UNCHANGED <<input, root, query, text, query2, text2, result, subject, given>>

SpecIndex == InitIndex /\ [][EvaluateIndexSelector]_vars

(* C13: on an array of length L, Index(i) yields exactly the element at    *)
(* j = i (i >= 0) or j = i + L (i < 0) when 0 <= j < L, a null element     *)
(* included, and the empty nodelist otherwise; on a node that is not an    *)
(* array it yields the empty nodelist.                                     *)
IndexSemantics ==
    pc = "indexed" =>
        IF isArray(given)
        THEN LET L == Len(given.a)
                 i == subject.index
                 j == IF i >= 0 THEN i ELSE i + L
             IN IF 0 <= j /\ j < L
                THEN outcome = <<given.a[j + 1]>>
                ELSE outcome = <<>>
        ELSE outcome = <<>>

\* [-1] on [1, null] gives null
NullElementYielded ==
    /\ pc = "indexed"
    /\ subject = createIndexSelector(-1)
    /\ given = JArr(<<JNum(1), JNull>>)
    /\ outcome = <<JNull>>

\* ---------------------------------------------------------------------------
\* evaluateQuery with options

OptionAtoms == {<<"@">>, <<"$">>, <<"$", ".", "x">>, <<"@", ".", "x">>, <<"1">>}
OptionUnary == {UnaryForm(<<"!">>, <<>>)}
OptionBinary == {Infix(<<" ", "==", " ">>), Infix(<<" ", "&&", " ">>)}
OptionInputs == FilterQueries(Texts(OptionAtoms, OptionUnary, OptionBinary, MaxArgumentDepth))
OptionRoots ==
    {JArr(<<JNum(1), JNum(2)>>), JObj(<<Member("x", JNum(1)), Member("a", JNum(2))>>)}
OptionArguments == {JObj(<<Member("x", JNum(1))>>), JArr(<<JNum(1), JNum(2)>>)}
\* no options, options without a query argument, options with one, and a
\* query context made with one
EvaluateOptions ==
    {<<>>, QueryContextOptions(<<>>, <<>>)}
    \cup {QueryContextOptions(<<>>, <<a>>) : a \in OptionArguments}
    \cup {createQueryContext(QueryContextOptions(<<>>, <<a>>)) : a \in OptionArguments}

InitOptions ==
    /\ pc = "start"
    /\ input \in {i \in OptionInputs : WellLexed(i)}
    /\ root \in OptionRoots
    /\ subject \in EvaluateOptions
    /\ query = <<>>
    /\ text = <<>>
    /\ query2 = <<>>
    /\ text2 = <<>>
    /\ result = <<>>
    /\ given = <<>>
    /\ outcome = <<>>

SpecOptions == InitOptions /\ [][Next]_vars

(* C14: when evaluateQuery is called with options.queryArgument set to a   *)
(* value different from the evaluation root, the embedded $ sub-queries of *)
(* filters start from options.queryArgument; when the option is absent     *)
(* they start from the evaluation root.                                    *)
QueryArgumentOption ==
    pc = "evaluated" =>
        \A k \in 1..Len(result.log) :
            result.log[k].identifier = "$" =>
                IF OptionOf(subject, "queryArgument") # <<>>
                THEN result.log[k].root = subject.queryArgument[1]
                ELSE result.log[k].root = root

\* ---------------------------------------------------------------------------
\* The constructors of query contexts

\* an extension a caller registers under the name of an intrinsic function
lengthExtension == FunctionExtension("length", <<Nodes>>, Logical)
SuppliedExtensions == {fooFunction, bnlFunction, lengthExtension}
SuppliedNames == {"foo", "length"}
\* every function from a set of property names to extensions
ExtensionObjects ==
    UNION {[names -> {fooFunction, lengthExtension}] : names \in SUBSET SuppliedNames}
ContextOptions ==
    {<<>>, QueryContextOptions(<<>>, <<>>)}
    \cup {QueryContextOptions(<<ExtensionArray(items)>>, <<>>) :
              items \in SequencesOf(SuppliedExtensions, MaxSelectors)}
    \cup {QueryContextOptions(<<ExtensionObject(members)>>, <<>>) :
              members \in ExtensionObjects}
\* a context of the JSON library and a query context with the intrinsic
\* functions
Contexts == {<<>>, createQueryContext(<<>>)}

InitContext ==
    /\ pc = "context"
    /\ subject \in ContextOptions \cup (Contexts \ {<<>>})
    /\ given \in Contexts
    /\ root = JNull
    /\ outcome = <<>>
    /\ PipelineIdle

\* outcome = createQueryContext(options)
CreateQueryContext ==
    /\ pc = "context"
    /\ ~In("queryScope", subject)
    /\ outcome' = createQueryContext(subject)
    /\ pc' = "created"
    /\ UNCHANGED <<input, root, query, text, query2, text2, result, subject, given>>

\* outcome = coerceQueryContext(options), the options a query context or not
CoerceQueryContext ==
    /\ pc = "context"
    /\ outcome' = coerceQueryContext(subject)
    /\ pc' = "coerced"
    /\ UNCHANGED <<input, root, query, text, query2, text2, result, subject, given>>

\* outcome = initQueryContext(context, options)
InitQueryContext ==
    /\ pc = "context"
    /\ ~In("queryScope", subject)
    /\ outcome' = initQueryContext(given, subject)
    /\ pc' = "initialized"
    /\ UNCHANGED <<input, root, query, text, query2, text2, result, subject, given>>

NextContext == CreateQueryContext \/ CoerceQueryContext \/ InitQueryContext
SpecContext == InitContext /\ [][NextContext]_vars

\* the extensions options.functionExtensions supplies
Supplied(options) ==
    LET extensions == OptionOf(options, "functionExtensions")
    IN IF In("queryScope", options) \/ extensions = <<>> THEN {}
       ELSE IF extensions[1].t = "array"
       THEN {extensions[1].items[i] : i \in 1..Len(extensions[1].items)}
       ELSE {extensions[1].members[n] : n \in DOMAIN extensions[1].members}

(* C15: in every context that createQueryContext, coerceQueryContext or    *)
(* initQueryContext produces, whatever the functionExtensions option, the  *)
(* names length, count, match, search and value resolve to the intrinsic   *)
(* functions and every supplied extension resolves under its own name.     *)
IntrinsicsAlwaysResolve ==
    pc \in {"created", "coerced", "initialized"} =>
        /\ \A f \in intrinsicFunctions : FunctionOf(outcome, f.name) = <<f>>
        /\ \A e \in Supplied(subject) : FunctionOf(outcome, e.name) = <<e>>

-----------------------------------------------------------------------------
(* The lexical functions of src/src/parse.ts, character by character.  A   *)
(* buffer here is a sequence of UTF-16 code units; a parsed name or string *)
(* is the sequence of its code units.                                      *)

\* buf.offset < buf.limit ? buf.input.charCodeAt(buf.offset) : -1
charCodeAt(buf, offset) == IF offset < Len(buf) THEN buf[offset + 1] ELSE -1
\* buf.input.slice(start, end)
slice(buf, start, end) == SubSeq(buf, start + 1, end)

isDigit(c) == c >= 48 /\ c <= 57
isUppercase(c) == c >= 65 /\ c <= 90
isLowercase(c) == c >= 97 /\ c <= 122
isAlpha(c) == isUppercase(c) \/ isLowercase(c)
isNameFirstChar(c) == isAlpha(c) \/ c = 95
isNameChar(c) == isNameFirstChar(c) \/ isDigit(c)

\* while (buf.offset < buf.limit && isDigit(charCodeAt(buf.offset))) buf.offset += 1
RECURSIVE SkipDigits(_, _)
SkipDigits(buf, offset) ==
    IF offset < Len(buf) /\ isDigit(buf[offset + 1]) THEN SkipDigits(buf, offset + 1)
    ELSE offset

\* the decimal number m * 10^e with no trailing zero in m; zero is 0 * 10^0
\* (-0 and 0 are the same number to === and to the comparisons)
RECURSIVE Decimal(_, _)
Decimal(m, e) ==
    IF m = 0 THEN [m |-> 0, e |-> 0]
    ELSE IF m % 10 = 0 THEN Decimal(m \div 10, e + 1)
    ELSE [m |-> m, e |-> e]

\* the value of a run of decimal digits
RECURSIVE DigitsValue(_, _, _)
DigitsValue(digits, i, value) ==
    IF i > Len(digits) THEN value
    ELSE DigitsValue(digits, i + 1, value * 10 + (digits[i] - 48))

\* Number(text) for a text of the form [-] digits [. digits] [e [+|-] digits]
Number(chars) ==
    LET first == IF chars[1] = 45 THEN 2 ELSE 1
        exps == {i \in 1..Len(chars) : chars[i] \in {69, 101}}
        expAt == IF exps = {} THEN Len(chars) + 1 ELSE CHOOSE i \in exps : TRUE
        dots == {i \in 1..Len(chars) : chars[i] = 46}
        dotAt == IF dots = {} THEN expAt ELSE CHOOSE i \in dots : TRUE
        whole == SubSeq(chars, first, dotAt - 1)
        fraction == SubSeq(chars, dotAt + 1, expAt - 1)
        mantissa == DigitsValue(whole \o fraction, 1, 0)
        signed == expAt < Len(chars) /\ chars[expAt + 1] \in {43, 45}
        power == DigitsValue(SubSeq(chars, expAt + (IF signed THEN 2 ELSE 1), Len(chars)), 1, 0)
        exponent == IF signed /\ chars[expAt + 1] = 45 THEN 0 - power ELSE power
    IN Decimal(IF first = 2 THEN 0 - mantissa ELSE mantissa, exponent - Len(fraction))

parseNumber(buf, offset) ==
    LET start == offset
        minus == charCodeAt(buf, offset) = 45
        o1 == IF minus THEN offset + 1 ELSE offset
        c == charCodeAt(buf, o1)
    IN IF c = 48
       THEN Return(o1 + 1, Number(slice(buf, start, o1 + 1)))
       ELSE IF c < 49 \/ c > 57
       THEN QueryError("Expected digit", o1)
       ELSE LET o2 == SkipDigits(buf, o1 + 1)
                hasFrac == charCodeAt(buf, o2) = 46
                fracOk == isDigit(charCodeAt(buf, o2 + 1))
                o3 == IF hasFrac THEN SkipDigits(buf, o2 + 2) ELSE o2
                hasExp == charCodeAt(buf, o3) \in {69, 101}
                o4 == IF charCodeAt(buf, o3 + 1) \in {43, 45} THEN o3 + 2 ELSE o3 + 1
                expOk == isDigit(charCodeAt(buf, o4))
                o5 == IF hasExp THEN SkipDigits(buf, o4 + 1) ELSE o3
            IN IF hasFrac /\ ~fracOk THEN QueryError("Expected fractional part", o2 + 1)
               ELSE IF hasExp /\ ~expOk THEN QueryError("Expected exponent part", o4)
               ELSE Return(o5, Number(slice(buf, start, o5)))

\* ---------------------------------------------------------------------------
\* parseNumber on its own

MaxChars == 4

\* - 0 1 . e E +
NumberChars == {45, 48, 49, 46, 101, 69, 43}
\* the non-empty texts of at most n characters
TextsOver(chars, n) == SequencesOf(chars, n) \ {<<>>}

InitNumber ==
    /\ pc = "number"
    /\ input \in TextsOver(NumberChars, MaxChars)
    /\ root = JNull
    /\ subject = <<>>
    /\ given = <<>>
    /\ outcome = <<>>
    /\ query = <<>>
    /\ text = <<>>
    /\ query2 = <<>>
    /\ text2 = <<>>
    /\ result = <<>>

\* outcome = parseNumber(buf) with buf at the start of the input
ParseNumber ==
    /\ pc = "number"
    /\ outcome' = parseNumber(input, 0)
    /\ pc' = "numbered"
    /\ UNCHANGED <<input, root, query, text, query2, text2, result, subject, given>>

SpecNumber == InitNumber /\ [][ParseNumber]_vars

AllDigits(w) == \A i \in 1..Len(w) : w[i] \in 48..57
\* int / "-0", with int = "0" / (["-"] DIGIT1 *DIGIT)
IsIntegerPart(w) ==
    \/ w = <<48>>
    \/ w = <<45, 48>>
    \/ LET digits == IF w # <<>> /\ w[1] = 45 THEN Tail(w) ELSE w
       IN digits # <<>> /\ digits[1] \in 49..57 /\ AllDigits(digits)
\* [ "." 1*DIGIT ]
IsFraction(w) == w = <<>> \/ (Len(w) >= 2 /\ w[1] = 46 /\ AllDigits(Tail(w)))
\* [ ("e" / "E") [ "-" / "+" ] 1*DIGIT ]
IsExponent(w) ==
    \/ w = <<>>
    \/ /\ Len(w) >= 2
       /\ w[1] \in {69, 101}
       /\ LET digits == IF w[2] \in {43, 45} THEN Tail(Tail(w)) ELSE Tail(w)
          IN digits # <<>> /\ AllDigits(digits)
\* number = (int / "-0") [ frac ] [ exp ]
IsNumber(w) ==
    \E i \in 1..Len(w) : \E j \in i..Len(w) :
        /\ IsIntegerPart(SubSeq(w, 1, i))
        /\ IsFraction(SubSeq(w, i + 1, j))
        /\ IsExponent(SubSeq(w, j + 1, Len(w)))

(* C16: parseNumber accepts exactly the lexemes                            *)
(* (int | -0) ["." DIGIT+] [(e|E) [+|-] DIGIT+] and consumes the whole     *)
(* lexeme as one literal with the number it denotes, whether the integer   *)
(* part is 0, -0 or a non-zero integer.                                    *)
NumberLiterals ==
    pc = "numbered" =>
        /\ IsNumber(input) =>
               /\ outcome.ok
               /\ outcome.offset = Len(input)
               /\ outcome.value = Number(input)
        /\ (outcome.ok /\ outcome.offset = Len(input)) => IsNumber(input)

\* ---------------------------------------------------------------------------
\* parseStringLiteral, character by character

isUnescapedStringChar(c) ==
    \/ (c >= 32 /\ c <= 33)
    \/ (c >= 35 /\ c <= 38)
    \/ (c >= 40 /\ c <= 91)
    \/ (c >= 93 /\ c <= 55295)
    \/ (c >= 57344 /\ c <= 1114111)

\* the value of one hex digit; buf.offset += 1
parseHexChar(buf, offset) ==
    LET c == charCodeAt(buf, offset)
    IN IF c >= 48 /\ c <= 57 THEN Return(offset + 1, c - 48)
       ELSE IF c >= 65 /\ c <= 70 THEN Return(offset + 1, c - 55)
       ELSE IF c >= 97 /\ c <= 102 THEN Return(offset + 1, c - 87)
       ELSE QueryError("Expected hex digit", offset)

\* (c0 << 12) | (c1 << 8) | (c2 << 4) | c3; the four parseHexChar calls
\* leave buf.offset after the fourth digit
parseHexCodePoint(buf, offset) ==
    LET c0 == parseHexChar(buf, offset)
        c1 == parseHexChar(buf, offset + 1)
        c2 == parseHexChar(buf, offset + 2)
        c3 == parseHexChar(buf, offset + 3)
    IN IF ~c0.ok THEN c0
       ELSE IF ~c1.ok THEN c1
       ELSE IF ~c2.ok THEN c2
       ELSE IF ~c3.ok THEN c3
       ELSE Return(offset + 4, c0.value * 4096 + c1.value * 256 + c2.value * 16 + c3.value)

\* the escape whose letter is c: the character it stands for, or <<>>
Escapable(c) ==
    CASE c = 98 -> <<8>>
      [] c = 102 -> <<12>>
      [] c = 110 -> <<10>>
      [] c = 114 -> <<13>>
      [] c = 116 -> <<9>>
      [] c = 47 -> <<47>>
      [] c = 92 -> <<92>>
      [] OTHER -> <<>>

\* after "\u", with buf.offset at the first hex digit
RECURSIVE StringLoop(_, _, _, _)
UnicodeEscape(buf, offset, quote, decoded) ==
    LET c0 == parseHexCodePoint(buf, offset)
    IN IF ~c0.ok THEN c0
       ELSE IF c0.value < 55296 \/ c0.value > 57343
       THEN StringLoop(buf, c0.offset + 4, quote, Append(decoded, c0.value))
       ELSE IF c0.value >= 55296 /\ c0.value <= 56319
       THEN LET o == c0.offset + 4
            IN IF o + 2 >= Len(buf) \/ charCodeAt(buf, o) # 92 \/ charCodeAt(buf, o + 1) # 117
               THEN QueryError("Expected low surrogate", o)
               ELSE LET c1 == parseHexCodePoint(buf, o + 2)
                    IN IF ~c1.ok THEN c1
                       ELSE IF c1.value < 56320 \/ c1.value > 57343
                       THEN QueryError("Invalid low surrogate", c1.offset)
                       ELSE StringLoop(buf, c1.offset + 4, quote,
                                       decoded \o <<c0.value, c1.value>>)
       ELSE QueryError("Unexpected low surrogate", c0.offset)

\* while (buf.offset < buf.limit) { ... }  return result, the string decoded so far
StringLoop(buf, offset, quote, decoded) ==
    IF ~(offset < Len(buf)) THEN Return(offset, decoded)
    ELSE LET c == buf[offset + 1]
         IN IF c = quote THEN Return(offset + 1, decoded)
            ELSE IF isUnescapedStringChar(c) \/ (quote = 34 /\ c = 39) \/ (quote = 39 /\ c = 34)
            THEN StringLoop(buf, offset + 1, quote, Append(decoded, c))
            ELSE IF c = 92
            THEN LET e == charCodeAt(buf, offset + 1)
                 IN IF (quote = 34 /\ e = 34) \/ (quote = 39 /\ e = 39)
                    THEN StringLoop(buf, offset + 2, quote, Append(decoded, e))
                    ELSE IF Escapable(e) # <<>>
                    THEN StringLoop(buf, offset + 2, quote, decoded \o Escapable(e))
                    ELSE IF e = 117
                    THEN UnicodeEscape(buf, offset + 2, quote, decoded)
                    ELSE QueryError("Invalid escape sequence", offset + 1)
            ELSE QueryError("Invalid string literal character", offset)

parseStringLiteral(buf, offset) ==
    LET c == charCodeAt(buf, offset)
    IN IF c = 34 \/ c = 39 THEN StringLoop(buf, offset + 1, c, <<>>)
       ELSE QueryError("Expected string literal", offset)

MaxPieces == 3

\* what a string literal is written from: the text of a piece and the code
\* units it stands for: a, b, \n, \u0041, \u00e9, \ud83d, \ude00
Pieces ==
    {[text |-> <<97>>, units |-> <<97>>, kind |-> "plain"],
     [text |-> <<98>>, units |-> <<98>>, kind |-> "plain"],
     [text |-> <<92, 110>>, units |-> <<10>>, kind |-> "plain"],
     [text |-> <<92, 117, 48, 48, 52, 49>>, units |-> <<65>>, kind |-> "plain"],
     [text |-> <<92, 117, 48, 48, 101, 57>>, units |-> <<233>>, kind |-> "plain"],
     [text |-> <<92, 117, 100, 56, 51, 100>>, units |-> <<55357>>, kind |-> "high"],
     [text |-> <<92, 117, 100, 101, 48, 48>>, units |-> <<56832>>, kind |-> "low"]}

RECURSIVE Written(_, _)
Written(pieces, i) ==
    IF i > Len(pieces) THEN <<>> ELSE pieces[i].text \o Written(pieces, i + 1)
RECURSIVE Denoted(_, _)
Denoted(pieces, i) ==
    IF i > Len(pieces) THEN <<>> ELSE pieces[i].units \o Denoted(pieces, i + 1)

\* a quote, the pieces, the same quote, and what follows the literal
InitString ==
    /\ pc = "string"
    /\ subject \in SequencesOf(Pieces, MaxPieces)
    /\ given \in {[quote |-> q, rest |-> r] : q \in {34, 39}, r \in {<<>>, <<93>>}}
    /\ input = <<given.quote>> \o Written(subject, 1) \o <<given.quote>> \o given.rest
    /\ root = JNull
    /\ outcome = <<>>
    /\ query = <<>>
    /\ text = <<>>
    /\ query2 = <<>>
    /\ text2 = <<>>
    /\ result = <<>>

\* outcome = parseStringLiteral(buf) with buf at the start of the input
ParseStringLiteral ==
    /\ pc = "string"
    /\ outcome' = parseStringLiteral(input, 0)
    /\ pc' = "stringed"
    /\ UNCHANGED <<input, root, query, text, query2, text2, result, subject, given>>

SpecString == InitString /\ [][ParseStringLiteral]_vars

\* every high surrogate is directly followed by a low one and every low
\* surrogate directly follows a high one
WellPaired(pieces) ==
    \A i \in 1..Len(pieces) :
        /\ pieces[i].kind = "high" => (i < Len(pieces) /\ pieces[i + 1].kind = "low")
        /\ pieces[i].kind = "low" => (i > 1 /\ pieces[i - 1].kind = "high")

(* C17: in a quoted string \uXXXX with a non-surrogate value decodes to    *)
(* that one code unit and a high surrogate directly followed by \u and a   *)
(* low surrogate decodes to the pair; scanning resumes directly after the  *)
(* last hex digit, so nothing that follows is skipped and the closing      *)
(* quote is required and consumed; an isolated low surrogate, or a high    *)
(* surrogate not followed by a low one, is a parse error.                  *)
StringEscapes ==
    pc = "stringed" =>
        IF WellPaired(subject)
        THEN /\ outcome.ok
             /\ outcome.value = Denoted(subject, 1)
             /\ outcome.offset = Len(Written(subject, 1)) + 2
        ELSE ~outcome.ok

\* ---------------------------------------------------------------------------
\* parseShorthandName, character by character

\* while (buf.offset < buf.limit && isNameChar(charCodeAt(buf.offset))) buf.offset += 1
RECURSIVE SkipNameChars(_, _)
SkipNameChars(buf, offset) ==
    IF offset < Len(buf) /\ isNameChar(buf[offset + 1]) THEN SkipNameChars(buf, offset + 1)
    ELSE offset

parseShorthandName(buf, offset) ==
    LET start == offset
    IN IF offset >= Len(buf) \/ ~isNameFirstChar(buf[offset + 1])
       THEN QueryError("Expected name", offset)
       ELSE LET end == SkipNameChars(buf, offset + 1)
            IN Return(end, slice(buf, start, end))

\* a Z _ 1 e-acute . -
NameChars == {97, 90, 95, 49, 233, 46, 45}

InitName ==
    /\ pc = "name"
    /\ input \in TextsOver(NameChars, MaxChars)
    /\ root = JNull
    /\ subject = <<>>
    /\ given = <<>>
    /\ outcome = <<>>
    /\ query = <<>>
    /\ text = <<>>
    /\ query2 = <<>>
    /\ text2 = <<>>
    /\ result = <<>>

\* outcome = parseShorthandName(buf) with buf at the start of the input
ParseShorthandName ==
    /\ pc = "name"
    /\ outcome' = parseShorthandName(input, 0)
    /\ pc' = "named"
    /\ UNCHANGED <<input, root, query, text, query2, text2, result, subject, given>>

SpecName == InitName /\ [][ParseShorthandName]_vars

\* name-first of RFC 9535: ALPHA, "_" and the non-ASCII code points
\* %x80-D7FF and %xE000-10FFFF (here those that are one code unit)
NameFirst(c) ==
    \/ c \in 65..90
    \/ c \in 97..122
    \/ c = 95
    \/ (c >= 128 /\ c <= 55295)
    \/ (c >= 57344 /\ c <= 65535)
\* name-char = name-first / DIGIT
NameChar(c) == NameFirst(c) \/ c \in 48..57
\* the length of the longest run of name characters at the start of w
NameLength(w) ==
    CHOOSE n \in 0..Len(w) :
        /\ \A i \in 1..n : NameChar(w[i])
        /\ n < Len(w) => ~NameChar(w[n + 1])

(* C18: parseShorthandName accepts a name whose first character is A-Z,    *)
(* a-z, _ or a non-ASCII code point that RFC 9535 allows, followed by any  *)
(* number of such characters or digits, and returns that name; any other   *)
(* first character is an error.                                            *)
ShorthandNames ==
    pc = "named" =>
        IF NameFirst(input[1])
        THEN /\ outcome.ok
             /\ outcome.offset = NameLength(input)
             /\ outcome.value = SubSeq(input, 1, NameLength(input))
        ELSE ~outcome.ok

\* ---------------------------------------------------------------------------
\* match and search on their own

\* an argument of ValueType: Nothing (<<>>) or a JSON value
FunctionValues ==
    {<<>>, <<JStr("j")>>, <<JStr("k")>>, <<JStr("j j")>>, <<JStr("[")>>,
     <<JNum(1)>>, <<JNull>>, <<JArr(<<JStr("j")>>)>>}

InitFunction ==
    /\ pc = "function"
    /\ subject \in {matchFunction, searchFunction}
    /\ given \in {<<value, regex>> : value \in FunctionValues, regex \in FunctionValues}
    /\ root = JNull
    /\ outcome = <<>>
    /\ PipelineIdle

\* outcome = func.evaluate(args, context), or what it throws
EvaluateFunction ==
    /\ pc = "function"
    /\ outcome' = Evaluate(subject, given)
    /\ pc' = "called"
    /\ UNCHANGED <<input, root, query, text, query2, text2, result, subject, given>>

SpecFunction == InitFunction /\ [][EvaluateFunction]_vars

\* the strings of the model that are regular expressions, each a plain
\* word, and the strings in which a match of the word is found
RegularExpressions == {"j", "k", "j j"}
Found(regex, value) == regex = value \/ (regex \in {"j", " "} /\ value = "j j")

(* C19: match and search never raise: when either argument is not a string *)
(* or the second is not a valid regular expression the result is false;    *)
(* otherwise match is true iff the whole first string matches and search   *)
(* is true iff some substring matches.                                     *)
MatchNeverRaises ==
    pc = "called" =>
        /\ outcome.error = ""
        /\ LET strings == given[1] # <<>> /\ given[2] # <<>>
                            /\ isString(given[1][1]) /\ isString(given[2][1])
           IN IF strings /\ given[2][1].s \in RegularExpressions
              THEN outcome.value = IF subject.name = "match"
                                   THEN given[2][1].s = given[1][1].s
                                   ELSE Found(given[2][1].s, given[1][1].s)
              ELSE outcome.value = FALSE

-----------------------------------------------------------------------------
(* The parse functions called with a string, and their try variants.  A    *)
(* try variant returns an optional value: <<>> is undefined.               *)

\* if (typeof input === "string" && buf.offset !== input.length) throw ...
WholeInput(in, parsed, message) ==
    IF parsed.ok /\ parsed.offset # Len(in) THEN QueryError(message, parsed.offset)
    ELSE parsed

parseImplicitQuery(in) ==
    LET c == At(in, 0)
        first == IF c = "$" THEN Return(1, <<>>)
                 ELSE IF c = "*"
                 THEN Return(1, <<createChildSegment(<<createWildcardSelector>>)>>)
                 ELSE IF isNameFirstLexeme(c)
                 THEN LET name == parseNameLexeme(in, 0)
                      IN Return(name.offset,
                                <<createChildSegment(<<createNameSelector(name.value)>>)>>)
                 ELSE IF isSpaceChar(c) THEN QueryError("Expected JSONPath query", 0)
                 ELSE Return(0, <<>>)
    IN IF ~first.ok THEN first
       \* parseSegments(buf, context, segments) appends to the segments of the
       \* first name or wildcard
       ELSE LET segments == parse("parseSegments", in, first.offset, ScopeNone)
                whole == WholeInput(in, segments, "Invalid JSONPath query")
            IN IF ~whole.ok THEN whole
               ELSE Return(whole.offset, createQuery(first.value \o whole.value))

\* parseSegment(input: string): the value is <<segment>>, or <<>> when the
\* function returns undefined
parseSegmentInput(in) ==
    WholeInput(in, parse("parseSegment", in, 0, ScopeNone), "Invalid JSONPath segment")
\* parseSelector(input: string)
parseSelectorInput(in) ==
    WholeInput(in, parse("parseSelector", in, 0, ScopeNone), "Invalid JSONPath selector")
\* parseExpression(input: string)
parseExpressionInput(in) ==
    WholeInput(in, parse("parseExpression", in, 0, ScopeNone), "Invalid JSONPath expression")

\* try { return f(input, options); } catch { return undefined; }
tryParseQuery(in) ==
    LET parsed == parseQuery(in) IN IF parsed.ok THEN <<parsed.value>> ELSE <<>>
tryParseImplicitQuery(in) ==
    LET parsed == parseImplicitQuery(in) IN IF parsed.ok THEN <<parsed.value>> ELSE <<>>
tryParseSegment(in) ==
    LET parsed == parseSegmentInput(in) IN IF parsed.ok THEN parsed.value ELSE <<>>
tryParseSelector(in) ==
    LET parsed == parseSelectorInput(in) IN IF parsed.ok THEN <<parsed.value>> ELSE <<>>
tryParseExpression(in) ==
    LET parsed == parseExpressionInput(in) IN IF parsed.ok THEN <<parsed.value>> ELSE <<>>

\* ---------------------------------------------------------------------------
\* Each parse function and its try variant on the same input

MaxLexemes == 4

TryLexemes == {"$", ".", "a", "[", "]", "*", "?", "@", "1", " "}
TryInputs == {in \in SequencesOf(TryLexemes, MaxLexemes) : WellLexed(in)}

InitTry ==
    /\ pc = "try"
    /\ input \in TryInputs
    /\ root = JNull
    /\ subject = <<>>
    /\ given = <<>>
    /\ outcome = <<>>
    /\ query = <<>>
    /\ text = <<>>
    /\ query2 = <<>>
    /\ text2 = <<>>
    /\ result = <<>>

\* what the throwing function did (raised, or returned an optional value)
\* and what the try variant returned
Both(parsed, returned, tried) ==
    [raised |-> ~parsed.ok,
     returned |-> IF parsed.ok THEN returned ELSE <<>>,
     tried |-> tried]

TryParseQuery ==
    /\ pc = "try"
    /\ subject' = "parseQuery"
    /\ outcome' = LET parsed == parseQuery(input)
                  IN Both(parsed, <<parsed.value>>, tryParseQuery(input))
    /\ pc' = "tried"
    /\ UNCHANGED <<input, root, query, text, query2, text2, result, given>>

TryParseImplicitQuery ==
    /\ pc = "try"
    /\ subject' = "parseImplicitQuery"
    /\ outcome' = LET parsed == parseImplicitQuery(input)
                  IN Both(parsed, <<parsed.value>>, tryParseImplicitQuery(input))
    /\ pc' = "tried"
    /\ UNCHANGED <<input, root, query, text, query2, text2, result, given>>

TryParseSegment ==
    /\ pc = "try"
    /\ subject' = "parseSegment"
    /\ outcome' = LET parsed == parseSegmentInput(input)
                  IN Both(parsed, parsed.value, tryParseSegment(input))
    /\ pc' = "tried"
    /\ UNCHANGED <<input, root, query, text, query2, text2, result, given>>

TryParseSelector ==
    /\ pc = "try"
    /\ subject' = "parseSelector"
    /\ outcome' = LET parsed == parseSelectorInput(input)
                  IN Both(parsed, <<parsed.value>>, tryParseSelector(input))
    /\ pc' = "tried"
    /\ UNCHANGED <<input, root, query, text, query2, text2, result, given>>

TryParseExpression ==
    /\ pc = "try"
    /\ subject' = "parseExpression"
    /\ outcome' = LET parsed == parseExpressionInput(input)
                  IN Both(parsed, <<parsed.value>>, tryParseExpression(input))
    /\ pc' = "tried"
    /\ UNCHANGED <<input, root, query, text, query2, text2, result, given>>

NextTry ==
    \/ TryParseQuery
    \/ TryParseImplicitQuery
    \/ TryParseSegment
    \/ TryParseSelector
    \/ TryParseExpression
SpecTry == InitTry /\ [][NextTry]_vars

(* C20: for parseQuery, parseImplicitQuery, parseSegment, parseSelector    *)
(* and parseExpression and every input, the try variant returns undefined  *)
(* exactly when the throwing variant raises, and otherwise returns the     *)
(* node the throwing variant returns.                                      *)
TryVariants ==
    pc = "tried" =>
        /\ outcome.tried = <<>> <=> outcome.raised
        /\ ~outcome.raised => outcome.tried = outcome.returned

\* ---------------------------------------------------------------------------
\* parseSelector called with a string, character by character

\* parseNameSelector(buf)
parseNameSelectorChars(buf, offset) ==
    LET name == parseStringLiteral(buf, offset)
    IN IF ~name.ok THEN name ELSE Return(name.offset, createNameSelector(name.value))

\* parseWildcardSelector(buf)
parseWildcardSelectorChars(buf, offset) ==
    IF charCodeAt(buf, offset) # 42 THEN QueryError("Expected wildcard selector", offset)
    ELSE Return(offset + 1, createWildcardSelector)

\* parseSelector(input: string) for an input whose first character is not
\* "-", a digit, ":" or "?": the name-selector and wildcard-selector
\* branches, the final else, and the check that the input is consumed
parseSelectorChars(in) ==
    LET c == charCodeAt(in, 0)
        selector == IF c = 34 \/ c = 39 THEN parseNameSelectorChars(in, 0)
                    ELSE IF c = 42 THEN parseWildcardSelectorChars(in, 0)
                    ELSE QueryError("Expected selector", 0)
    IN IF ~selector.ok THEN selector
       ELSE IF selector.offset # Len(in)
       THEN QueryError("Invalid JSONPath selector", selector.offset)
       ELSE selector

\* the first character (a quote, "*" or "a"), the pieces, the closing quote
\* or nothing, and what follows
InitSelector ==
    /\ pc = "selector"
    /\ subject \in SequencesOf(Pieces, MaxPieces)
    /\ given \in {[first |-> f, closed |-> c, rest |-> r] :
                      f \in {34, 39, 42, 97}, c \in BOOLEAN, r \in {<<>>, <<93>>}}
    /\ input = <<given.first>> \o Written(subject, 1)
                   \o (IF given.closed THEN <<given.first>> ELSE <<>>) \o given.rest
    /\ root = JNull
    /\ outcome = <<>>
    /\ query = <<>>
    /\ text = <<>>
    /\ query2 = <<>>
    /\ text2 = <<>>
    /\ result = <<>>

\* outcome = what parseSelector(input) returns, or the QueryError it throws:
\* new QueryError(message, buf) copies buf.input and buf.offset
ParseSelector ==
    /\ pc = "selector"
    /\ \E parsed \in {parseSelectorChars(input)} :
           outcome' = IF parsed.ok THEN [raised |-> FALSE, value |-> parsed.value]
                      ELSE [raised |-> TRUE, message |-> parsed.message,
                            input |-> input, offset |-> parsed.offset]
    /\ pc' = "selected"
    /\ UNCHANGED <<input, root, query, text, query2, text2, result, subject, given>>

SpecSelector == InitSelector /\ [][ParseSelector]_vars

(* C21: every failure of a parse operation on a string input raises a      *)
(* QueryError whose input is the original input string and whose offset    *)
(* lies between 0 and the length of the input.                             *)
QueryErrorInRange ==
    (pc = "selected" /\ outcome.raised) =>
        /\ outcome.input = input
        /\ 0 <= outcome.offset
        /\ outcome.offset <= Len(input)

-----------------------------------------------------------------------------
(* Singular queries, at the top level and as operands of comparisons       *)

SingularSegments ==
    {<<".", "a">>, <<"[", "0", "]">>, <<"[", "-1", "]">>, <<"[", "'k'", "]">>,
     <<".", "*">>, <<".", ".", "a">>, <<"[", "0", ",", "1", "]">>,
     <<"[", "0", ":", "2", "]">>}
SingularAtoms ==
    {<<"@", ".", "a">>, <<"$", "[", "0", "]">>, <<"@", "[", "0", "]", ".", "a">>,
     <<"@", ".", "*">>, <<"$", ".", ".", "a">>, <<"@", "[", "0", ",", "1", "]">>, <<"1">>}
SingularUnary == {UnaryForm(<<"@", "[", "?">>, <<"]">>), UnaryForm(<<"!">>, <<>>)}
SingularBinary == {Infix(<<" ", "==", " ">>), Infix(<<" ", "<", " ">>)}
SingularInputs ==
    SegmentQueries(SingularSegments, MaxSegments + 1)
    \cup FilterQueries(Texts(SingularAtoms, SingularUnary, SingularBinary, MaxDepth - 1))
SingularRoots ==
    {JArr(<<JObj(<<Member("a", JNum(1)), Member("k", JNum(2))>>),
            JArr(<<JNum(1), JNum(1)>>)>>),
     JObj(<<Member("a", JArr(<<JObj(<<Member("a", JNum(1))>>), JNum(2)>>)),
            Member("k", JObj(<<Member("a", JNum(1)), Member("k", JNum(1))>>))>>)}

InitSingular == InitWith(SingularInputs, SingularRoots)
SpecSingular == InitSingular /\ [][Next]_vars

\* the comparison expressions of an expression, and of the filters of the
\* segments of a query, however deeply nested
RECURSIVE ComparisonsOfExpression(_)
RECURSIVE ComparisonsOfSegments(_)
ComparisonsOfExpression(e) ==
    CASE e.kind \in {"Or", "And"} ->
             UNION {ComparisonsOfExpression(e.operands[i]) : i \in 1..Len(e.operands)}
      [] e.kind = "Not" -> ComparisonsOfExpression(e.operand)
      [] e.kind = "Comparison" ->
             {e} \cup ComparisonsOfExpression(e.lhs) \cup ComparisonsOfExpression(e.rhs)
      [] e.kind = "Query" -> ComparisonsOfSegments(e.segments)
      [] e.kind = "Function" ->
             UNION {ComparisonsOfExpression(e.args[i]) : i \in 1..Len(e.args)}
      [] OTHER -> {}
ComparisonsOfSegments(segments) ==
    UNION {ComparisonsOfExpression(segments[i].selectors[j].expression) :
               <<i, j>> \in {<<i, j>> \in (1..Len(segments)) \X (1..MaxSelectors + 1) :
                                 /\ j <= Len(segments[i].selectors)
                                 /\ segments[i].selectors[j].kind = "Filter"}}

\* the query expressions that are operands of the comparisons of a query
ComparedQueries(q) ==
    {o \in UNION {{c.lhs, c.rhs} : c \in ComparisonsOfSegments(q.segments)} : o.kind = "Query"}

\* the root and its descendants
NodesOf(r) == {r} \cup {getDescendants(r)[i] : i \in 1..Len(getDescendants(r))}

(* C22: a query q with isSingularQuery(q) evaluates to a nodelist of       *)
(* length 0 or 1 on every JSON value; every query expression that is an    *)
(* operand of a comparison in a parsed query is singular and evaluates to  *)
(* a nodelist of length at most 1 at every node.                           *)
SingularQueries ==
    /\ (pc = "evaluated" /\ isSingularQuery(query.value)) =>
           (result.error = "" /\ Len(result.value) <= 1)
    /\ (pc = "parsed" /\ query.ok) =>
           \A o \in ComparedQueries(query.value) :
               /\ isSingularQuery(o)
               /\ \A node \in NodesOf(root) :
                      LET nodes == evaluateQueryExpression(o, node, root)
                      IN nodes.error = "" /\ Len(nodes.value) <= 1

\* a comparison was parsed one of whose operands is an embedded query of two
\* segments that selects one node
SingularOperandSelectsOne ==
    /\ pc = "parsed"
    /\ query.ok
    /\ \E o \in ComparedQueries(query.value) :
           /\ Len(o.segments) = 2
           /\ \E node \in NodesOf(root) :
                  Len(evaluateQueryExpression(o, node, root).value) = 1

-----------------------------------------------------------------------------
(* context.queryArgument while queries, embedded queries and function      *)
(* extensions call one another: the calls in progress are a stack of       *)
(* frames, the context is one mutable object shared by all of them.        *)

\* the most calls in progress at once
MaxFrames == 5

StackRoots ==
    {JArr(<<JArr(<<JNum(1)>>)>>), JObj(<<Member("x", JObj(<<Member("x", JNum(2))>>))>>)}

\* a call in progress: the function, the identifier of an embedded query,
\* the root its segments start from, its local const queryArgument, and
\* whether it was entered after a re-entrant call of evaluateQuery
Frame(fn, identifier, r, queryArgument) ==
    [fn |-> fn, identifier |-> identifier, root |-> r, queryArgument |-> queryArgument,
     after |-> result]
Top == subject[Len(subject)]
Pop == SubSeq(subject, 1, Len(subject) - 1)
InQuery == subject # <<>> /\ Top.fn \in {"evaluateQuery", "evaluateQueryExpression"}
InExtension == subject # <<>> /\ Top.fn = "evaluate"

\* no extension restores the context: not what the finally blocks do
FinallySkipped(context, frame) == context
\* finally { context.queryArgument = queryArgument; }
Finally(context, frame) == Assign(context, "queryArgument", frame.queryArgument)

NoExit == [fn |-> "", raised |-> FALSE, entry |-> <<>>, during |-> <<>>]
\* the call that has just exited: the value of context.queryArgument when
\* it was entered and just before it exited
Exit(frame, raised) ==
    [fn |-> frame.fn, raised |-> raised, entry |-> frame.queryArgument,
     during |-> given.queryArgument]

\* the caller's context, with or without a queryArgument of its own
InitStack ==
    /\ pc = "idle"
    /\ given \in {Assign(createQueryContext(<<>>), "queryArgument", a) :
                      a \in {<<>>, <<JNull>>}}
    /\ subject = <<>>
    /\ outcome = NoExit
    /\ root = JNull
    /\ input = <<>>
    /\ query = <<>>
    /\ text = <<>>
    /\ query2 = <<>>
    /\ text2 = <<>>
    /\ result = FALSE

\* evaluateQuery(query, r, context) is entered, by the caller or by the
\* evaluate callback of a function extension (result: whether the
\* evaluation in progress has made such a re-entrant call):
\* const queryArgument = context.queryArgument; context.queryArgument = root
CallEvaluateQuery ==
    /\ \/ pc = "idle" /\ subject = <<>>
       \/ pc = "running" /\ InExtension
    /\ Len(subject) < MaxFrames
    /\ \E r \in StackRoots :
           /\ subject' = Append(subject, Frame("evaluateQuery", "$", r, given.queryArgument))
           /\ given' = Assign(given, "queryArgument", <<r>>)
    /\ outcome' = NoExit
    /\ result' = (subject # <<>>)
    /\ pc' = "running"
    /\ UNCHANGED <<input, root, query, text, query2, text2>>

\* evaluateQueryExpression(expression, node, context) is entered from a
\* filter of the query being evaluated: the node is a child of a node that
\* the segments reached
CallEvaluateQueryExpression ==
    /\ pc = "running"
    /\ InQuery
    /\ Len(subject) < MaxFrames
    /\ \E identifier \in {"@", "$"}, node \in NodesOf(Top.root) \ {Top.root} :
           \E r \in {IF identifier = "@" THEN node ELSE given.queryArgument[1]} :
               /\ subject' = Append(subject, Frame("evaluateQueryExpression", identifier, r,
                                                   given.queryArgument))
               /\ given' = Assign(given, "queryArgument", <<r>>)
    /\ outcome' = NoExit
    /\ UNCHANGED <<pc, input, root, query, text, query2, text2, result>>

\* expression.func.evaluate(args, context) is entered from a filter
CallExtension ==
    /\ pc = "running"
    /\ InQuery
    /\ Len(subject) < MaxFrames
    /\ subject' = Append(subject, Frame("evaluate", "", Top.root, <<>>))
    /\ UNCHANGED <<pc, given, outcome, input, root, query, text, query2, text2, result>>

\* the segments are done: the finally block runs and the nodes are returned
ReturnNodes ==
    /\ pc = "running"
    /\ InQuery
    /\ given' = Finally(given, Top)
    /\ outcome' = Exit(Top, FALSE)
    /\ subject' = Pop
    /\ pc' = IF Len(subject) = 1 THEN "idle" ELSE "running"
    /\ UNCHANGED <<input, root, query, text, query2, text2, result>>

\* the evaluate callback returns
ReturnFromExtension ==
    /\ pc = "running"
    /\ InExtension
    /\ subject' = Pop
    /\ UNCHANGED <<pc, given, outcome, input, root, query, text, query2, text2, result>>

\* the evaluate callback throws, or the evaluator throws a TypeError
Throw ==
    /\ pc = "running"
    /\ subject # <<>>
    /\ pc' = "raising"
    /\ UNCHANGED <<subject, given, outcome, input, root, query, text, query2, text2, result>>

\* the error leaves the innermost call: through the finally block of a
\* query, straight out of a callback
Unwind ==
    /\ pc = "raising"
    /\ IF subject = <<>>
       THEN pc' = "idle" /\ UNCHANGED <<subject, given, outcome>>
       ELSE /\ subject' = Pop
            /\ IF InQuery
               THEN given' = Finally(given, Top) /\ outcome' = Exit(Top, TRUE)
               ELSE UNCHANGED <<given, outcome>>
            /\ UNCHANGED pc
    /\ UNCHANGED <<input, root, query, text, query2, text2, result>>

NextStack ==
    \/ CallEvaluateQuery
    \/ CallEvaluateQueryExpression
    \/ CallExtension
    \/ ReturnNodes
    \/ ReturnFromExtension
    \/ Throw
    \/ Unwind
SpecStack == InitStack /\ [][NextStack]_vars

(* C23: whenever evaluateQuery or evaluateQueryExpression returns or       *)
(* raises, context.queryArgument of the caller's context equals the value  *)
(* it had when that call was entered.                                      *)
QueryArgumentRestored ==
    outcome.fn # "" => given.queryArgument = outcome.entry

\* an embedded query left by an error thrown in a nested call put back a
\* queryArgument other than the one it ran with
RestoredOnRaise ==
    /\ outcome.fn = "evaluateQueryExpression"
    /\ outcome.raised
    /\ outcome.during # outcome.entry
    /\ given.queryArgument = outcome.entry
    /\ subject # <<>>

-----------------------------------------------------------------------------
(* context.queryScope while filters and function arguments nest inside a   *)
(* parse operation: the calls in progress are a stack of frames over one   *)
(* mutable context.                                                        *)

\* a call in progress: the function and its local const queryScope (for the
\* parse operation itself, the scope of the caller's context at entry)
ScopeFrame(fn, queryScope) == [fn |-> fn, queryScope |-> queryScope]

\* the scope is left as the nested call set it: not what the finally blocks do
FinallyScopeSkipped(context, frame) == context
\* finally { context.queryScope = queryScope; }
FinallyScope(context, frame) == Assign(context, "queryScope", frame.queryScope)

NoScopeExit == [fn |-> "", raised |-> FALSE, entry |-> ScopeNone, during |-> ScopeNone]
ScopeExit(frame, raised) ==
    [fn |-> frame.fn, raised |-> raised, entry |-> frame.queryScope,
     during |-> given.queryScope]

\* the caller's context: a new one, or one whose scope the caller has set
InitNesting ==
    /\ pc = "idle"
    /\ given \in {Assign(createQueryContext(<<>>), "queryScope", s) :
                      s \in {ScopeNone, ScopeExpression, ScopeArgument}}
    /\ subject = <<>>
    /\ outcome = NoScopeExit
    /\ root = JNull
    /\ input = <<>>
    /\ query = <<>>
    /\ text = <<>>
    /\ query2 = <<>>
    /\ text2 = <<>>
    /\ result = <<>>

\* parseQuery, parseSegment, parseSelector or parseExpression is called
\* with the caller's context
CallParse ==
    /\ pc = "idle"
    /\ subject = <<>>
    /\ subject' = <<ScopeFrame("parse", given.queryScope)>>
    /\ outcome' = NoScopeExit
    /\ pc' = "running"
    /\ UNCHANGED <<given, input, root, query, text, query2, text2, result>>

\* parseFilterSelector reaches the filter body:
\* const queryScope = context.queryScope; context.queryScope = Expression
EnterFilterSelector ==
    /\ pc = "running"
    /\ subject # <<>>
    /\ Len(subject) < MaxFrames
    /\ subject' = Append(subject, ScopeFrame("parseFilterSelector", given.queryScope))
    /\ given' = Assign(given, "queryScope", ScopeExpression)
    /\ outcome' = NoScopeExit
    /\ UNCHANGED <<pc, input, root, query, text, query2, text2, result>>

\* parseFunctionArguments reaches an argument:
\* const queryScope = context.queryScope; context.queryScope = Argument
EnterFunctionArgument ==
    /\ pc = "running"
    /\ subject # <<>>
    /\ Len(subject) < MaxFrames
    /\ subject' = Append(subject, ScopeFrame("parseFunctionArguments", given.queryScope))
    /\ given' = Assign(given, "queryScope", ScopeArgument)
    /\ outcome' = NoScopeExit
    /\ UNCHANGED <<pc, input, root, query, text, query2, text2, result>>

\* parseExpression returns to the filter or the argument list, whose
\* finally block runs; or the parse operation returns its node
ReturnParsed ==
    /\ pc = "running"
    /\ subject # <<>>
    /\ given' = IF Top.fn = "parse" THEN given ELSE FinallyScope(given, Top)
    /\ outcome' = ScopeExit(Top, FALSE)
    /\ subject' = Pop
    /\ pc' = IF Len(subject) = 1 THEN "idle" ELSE "running"
    /\ UNCHANGED <<input, root, query, text, query2, text2, result>>

\* throw new QueryError(message, buf)
ThrowQueryError ==
    /\ pc = "running"
    /\ subject # <<>>
    /\ pc' = "raising"
    /\ UNCHANGED <<subject, given, outcome, input, root, query, text, query2, text2, result>>

\* the QueryError leaves the innermost call, through the finally block of
\* a filter or an argument list, and at last the parse operation
UnwindParse ==
    /\ pc = "raising"
    /\ subject # <<>>
    /\ given' = IF Top.fn = "parse" THEN given ELSE FinallyScope(given, Top)
    /\ outcome' = ScopeExit(Top, TRUE)
    /\ subject' = Pop
    /\ pc' = IF Len(subject) = 1 THEN "idle" ELSE "raising"
    /\ UNCHANGED <<input, root, query, text, query2, text2, result>>

NextNesting ==
    \/ CallParse
    \/ EnterFilterSelector
    \/ EnterFunctionArgument
    \/ ReturnParsed
    \/ ThrowQueryError
    \/ UnwindParse
SpecNesting == InitNesting /\ [][NextNesting]_vars

(* C24: after a parse operation, or a filter or function argument nested   *)
(* in it, returns or raises a QueryError, context.queryScope equals its    *)
(* value before that call; while a function argument is being parsed it is *)
(* Argument and while a filter body is being parsed it is Expression.      *)
QueryScopeRestored ==
    /\ outcome.fn # "" => given.queryScope = outcome.entry
    /\ (pc = "running" /\ subject # <<>> /\ Top.fn = "parseFunctionArguments") =>
           given.queryScope = ScopeArgument
    /\ (pc = "running" /\ subject # <<>> /\ Top.fn = "parseFilterSelector") =>
           given.queryScope = ScopeExpression

\* a QueryError raised in a filter nested in a function argument has left
\* the argument, whose finally block put the scope of the enclosing filter
\* back
ScopeRestoredOnRaise ==
    /\ pc = "raising"
    /\ outcome.fn = "parseFunctionArguments"
    /\ outcome.raised
    /\ outcome.entry = ScopeExpression
    /\ outcome.during = ScopeArgument
    /\ given.queryScope = ScopeExpression
    /\ Len(subject) >= 2

(* C25: every child or descendant segment of a query returned by           *)
(* parseQuery or parseImplicitQuery, and the segment returned by           *)
(* parseSegment, has at least one selector: $[] and $..[] are rejected.    *)
SelectorsNonEmpty ==
    (pc = "tried" /\ ~outcome.raised) =>
        CASE subject \in {"parseQuery", "parseImplicitQuery"} ->
                 \A i \in 1..Len(outcome.returned[1].segments) :
                     outcome.returned[1].segments[i].selectors # <<>>
          [] subject = "parseSegment" ->
                 outcome.returned = <<>> \/ outcome.returned[1].selectors # <<>>
          [] OTHER -> TRUE

-----------------------------------------------------------------------------
(* Or and And expressions on their own.  The log of an evaluation holds    *)
(* one event for every embedded query that was evaluated, in order.        *)

\* the most operands of an Or or And expression
MaxOperands == 3

NameQuery(identifier, name) ==
    createQueryExpression(identifier, <<createChildSegment(<<createNameSelector(name)>>)>>)

\* @.a, @.k, $.a, @.a == 1, !@.k, match(@.k, 'j')
LogicOperands ==
    {NameQuery("@", "a"), NameQuery("@", "k"), NameQuery("$", "a"),
     createComparisonExpression(NameQuery("@", "a"), "==", createLiteralExpression(JNum(1))),
     createNotExpression(NameQuery("@", "k")),
     createFunctionExpression(matchFunction,
                              <<NameQuery("@", "k"), createLiteralExpression(JStr("j"))>>)}

LogicNodes ==
    {JObj(<<Member("a", JNum(1))>>), JObj(<<Member("k", JStr("j"))>>),
     JObj(<<Member("a", JNum(2)), Member("k", JStr("k"))>>), JNum(1)}

InitLogic ==
    /\ pc = "logic"
    /\ given \in {[operands |-> o, node |-> n] :
                      o \in SequencesOf(LogicOperands, MaxOperands) \ {<<>>}, n \in LogicNodes}
    /\ root \in {JObj(<<Member("a", JNum(1))>>), JObj(<<Member("k", JNum(1))>>)}
    /\ subject = <<>>
    /\ outcome = <<>>
    /\ PipelineIdle

\* outcome = evaluateOrExpression(expression, node, context)
EvaluateOrExpression ==
    /\ pc = "logic"
    /\ subject' = createOrExpression(given.operands)
    /\ outcome' = evaluateOrExpression(createOrExpression(given.operands), given.node, root)
    /\ pc' = "decided"
    /\ UNCHANGED <<input, root, query, text, query2, text2, result, given>>

\* outcome = evaluateAndExpression(expression, node, context)
EvaluateAndExpression ==
    /\ pc = "logic"
    /\ subject' = createAndExpression(given.operands)
    /\ outcome' = evaluateAndExpression(createAndExpression(given.operands), given.node, root)
    /\ pc' = "decided"
    /\ UNCHANGED <<input, root, query, text, query2, text2, result, given>>

NextLogic ==
    \/ EvaluateOrExpression
    \/ EvaluateAndExpression
SpecLogic == InitLogic /\ [][NextLogic]_vars

\* each operand evaluated by itself at the node
Alone == [i \in 1..Len(given.operands) |->
              evaluate("evaluateExpression", given.operands[i], given.node, root)]
\* the first operand that has the deciding value, or one past the last
Deciding(alone, value) ==
    IF \E i \in 1..Len(alone) : alone[i].value = value
    THEN CHOOSE i \in 1..Len(alone) :
             /\ alone[i].value = value
             /\ \A j \in 1..(i - 1) : alone[j].value # value
    ELSE Len(alone) + 1
\* the events of the operands up to the k-th
RECURSIVE EventsUpTo(_, _)
EventsUpTo(alone, k) ==
    IF k = 0 THEN <<>> ELSE EventsUpTo(alone, k - 1) \o alone[k].log

(* C26: evaluateOrExpression evaluates its operands left to right, stops   *)
(* at the first true operand and returns true, or false if there is none;  *)
(* evaluateAndExpression stops at the first false operand and returns      *)
(* false, or true if there is none; no operand after the deciding one is   *)
(* evaluated.                                                              *)
ShortCircuit ==
    pc = "decided" =>
        \A alone \in {Alone} :
            \A k \in {Deciding(alone, subject.kind = "Or")} :
                /\ outcome.error = ""
                /\ outcome.value = IF subject.kind = "Or" THEN k <= Len(alone)
                                   ELSE k > Len(alone)
                /\ outcome.log = EventsUpTo(alone, IF k <= Len(alone) THEN k ELSE Len(alone))

\* the first of three operands decided an Or expression and the other two,
\* which have embedded queries, were not evaluated
LaterOperandsSkipped ==
    /\ pc = "decided"
    /\ subject.kind = "Or"
    /\ Len(given.operands) = 3
    /\ outcome.value = TRUE
    /\ Len(outcome.log) = 1
    /\ \A i \in 2..3 :
           evaluate("evaluateExpression", given.operands[i], given.node, root).log # <<>>

(* C27: the buffer offset that a scanning step leaves, here the string     *)
(* literal scanner with its \uXXXX and surrogate-pair steps, is at least   *)
(* the offset it started from and at most the limit, the length of the     *)
(* input.                                                                  *)
CursorInRange ==
    pc = "stringed" =>
        /\ 0 <= outcome.offset
        /\ outcome.offset <= Len(input)

\* the evaluateQuery call that the i-th frame runs in
EnclosingQuery(i) ==
    CHOOSE j \in 1..i :
        /\ subject[j].fn = "evaluateQuery"
        /\ \A k \in (j + 1)..i : subject[k].fn # "evaluateQuery"

(* C28: when a function extension's callback calls evaluateQuery with the  *)
(* same context and another root, every embedded $ query inside the inner  *)
(* call starts from the inner root, and every embedded $ query of the      *)
(* outer evaluation entered after a re-entrant call starts from the outer  *)
(* root.                                                                   *)
ReentrantRoots ==
    \A i \in 1..Len(subject) :
        (/\ subject[i].fn = "evaluateQueryExpression"
         /\ subject[i].identifier = "$"
         /\ (EnclosingQuery(i) > 1 \/ subject[i].after)) =>
            subject[i].root = subject[EnclosingQuery(i)].root

(* C29: a string literal that reaches the end of the input without its     *)
(* closing quote is rejected: parseSelector on an opening quote followed   *)
(* by characters and escapes, none of them that quote, raises a QueryError *)
(* and returns no node.                                                    *)
UnterminatedRejected ==
    (pc = "selected" /\ given.first \in {34, 39} /\ ~given.closed) => outcome.raised

-----------------------------------------------------------------------------
(* Function calls whose argument list is closed, and calls whose argument  *)
(* list ends with a comma and is never closed                              *)

CallAtoms == {<<"@", ".", "a">>, <<"@", ".", "*">>, <<"'j'">>}
ClosedUnary == {Call("length"), Call("count"), Call("value")}
ClosedBinary == {Call2("match"), Call2("search")}
\* name "(" argument ","  and  name "(" argument ", " argument ", "
DanglingUnary ==
    {UnaryForm(<<name, "(">>, post) :
         name \in {"length", "count", "value"}, post \in {<<",">>, <<",", " ">>}}
DanglingBinary ==
    {BinaryForm(<<name, "(">>, <<",", " ">>, <<",", " ">>) : name \in {"match", "search"}}

CallsOf(unary, binary) ==
    {f.pre \o t \o f.post : f \in unary, t \in CallAtoms}
    \cup {f.pre \o t \o f.mid \o u \o f.post : f \in binary, t \in CallAtoms, u \in CallAtoms}
\* $[?<call>] and $[?<call> == 1]
CallQueries(calls) ==
    FilterQueries(calls) \cup FilterQueries({t \o <<" ", "==", " ", "1">> : t \in calls})

ClosedInputs == CallQueries(CallsOf(ClosedUnary, ClosedBinary))
DanglingInputs == CallQueries(CallsOf(DanglingUnary, DanglingBinary))

InitCalls == InitWith(ClosedInputs \cup DanglingInputs, FormatRoots)
SpecCalls == InitCalls /\ [][Next]_vars

(* C30: a function call whose argument list ends with a dangling comma and *)
(* is not closed by ")" is rejected by parseQuery.                         *)
DanglingRejected ==
    (pc = "parsed" /\ input \in DanglingInputs) => ~query.ok

====
